---- MODULE Spec2Model ----
(***************************************************************************)
(* Model of the author-driven repository-expansion crawler                 *)
(* (class AuthorRepositoryFinder, src/unnamed/part_008).                   *)
(*                                                                         *)
(* The state is the crawler's in-memory AuthorRepositoryFinderState, the   *)
(* locals of processAuthors / fetchUserRepositories /                      *)
(* cloneAndSearchRepository, the two files it writes, the scratch          *)
(* directories under os.tmpdir(), and a clock counted in whole days.       *)
(* The process can be killed at any step and started again.                *)
(*                                                                         *)
(* The module also models the primary size-sharded crawl (ShardPlanner,    *)
(* SearchExecutor) and the index store (IndexStore), as the specification  *)
(* describes them, and the frontend's file cache (CacheService,            *)
(* src/frontend/src/services/cacheService.ts). Each component has its own  *)
(* specification; its actions leave the other components' variables alone. *)
(***************************************************************************)
EXTENDS Integers, Sequences, FiniteSets, TLC

\* ---------------------------------------------------------------- bounds
NumAuthors == 2          \* number of distinct owner_login values in the index
MaxNow == 7              \* the clock stops at this day
MarkerRepos == 2         \* only an author's first MarkerRepos repositories can hold the marker
MaxLeak == 1             \* scratch directories that may be left behind before faults stop
MaxKills == 1            \* times the process may be killed
MaxItems == 2            \* items of an index file when its content is drawn
MAX_SIZE == 4            \* largest file size of the search space, in bytes
BaseWidth == 3           \* sizes covered by one base shard
MaxRetries == 2          \* retries of a rate-limited query
NumKeys == 2             \* distinct uniqueness keys the search can return
MaxBatch == 2            \* items handed to one merge call
MaxContent == 2          \* versions of the file the server goes through
MaxPage == 3             \* largest page number a URL or a state holds
NumFields == 2           \* search fields the options are built from
NumPlugins == 25         \* plugins of the index the browsing page shows
MaxOps == 3              \* operations on the browsing page after it opened

\* ------------------------------------------------------ program constants
perPage == 100           \* fetchUserRepositories: const perPage = 100
MaxUserRepos == 100      \* processAuthors: if (userRepos.length > 100)
FreshDays == 7           \* processAuthors: if (daysSinceProcessed < 7)
CycleDelayMin == 60      \* run: setTimeout(resolve, 60 * 60 * 1000)
ErrorDelayMin == 5       \* run: setTimeout(resolve, 5 * 60 * 1000)
PageCap == 1000          \* results the host serves for one query
BaseBackoff == 1         \* first backoff of a rate-limited query, in seconds
CACHE_VERSION == 1       \* CacheService.CACHE_VERSION
DefaultPageSize == 30    \* useUrlState: useState(30), pageSize || 30

\* -------------------------------------------------------------- environment
\* Number of repositories the host may hold for an author: small accounts
\* and one over the limit, or accounts at the limit and around it.
ListSizes == {0, 2, MaxUserRepos + 1}
LargeListSizes == {1, MaxUserRepos, MaxUserRepos + 1}
\* Non-OK statuses of the listing endpoint other than 404: the token is
\* rejected, the rate limit is hit.
FailStatuses == {401, 403}
RateLimitStatuses == {403}
\* Values of CONTINUOUS: unset (one pass, then exit) or "true".
SingleCycle == {FALSE}
BothModes == {FALSE, TRUE}
\* The logins found in oxide_plugins.json / crawled_plugins.json.
AuthorPool == <<"alice", "bob", "carol", "dave">>

VARIABLES
    now,           \* Date.now(), in days
    stateFile,     \* output/author_finder_state.json
    outputFile,    \* output/author_discovered_repositories.json
    scratchDirs,   \* directories repo-XXXXXX existing under os.tmpdir()
    pc,            \* position of the single control path
    state,         \* this.state
    startIndex,    \* processAuthors: startIndex
    i,             \* processAuthors: loop variable i (0-based)
    outcome,       \* how each position of the list fared in the current pass
    srvCount,      \* repositories the host holds for the author being listed
    page,          \* fetchUserRepositories: page
    allRepos,      \* fetchUserRepositories: allRepos.length
    userRepos,     \* processAuthors: userRepos.length
    k,             \* processAuthors: position of repo in userRepos (1-based)
    foundPluginRepos,
    tempDir,       \* cloneAndSearchRepository: tempDir
    ret,           \* cloneAndSearchRepository: value returned
    err,           \* processAuthors: the caught error
    log,           \* last line written to the console
    repoFailed,    \* some repository of the current author failed
    exitCode,      \* exit status of the process, 0 while it runs
    crashSnap,     \* where and when the process was last killed
    continuous,    \* main: const continuous (CONTINUOUS === "true")
    delayMin,      \* run: minutes of the setTimeout the loop is waiting on
    oxideItems,    \* output/oxide_plugins.json: owner_login of each item
    crawledItems,  \* output/crawled_plugins.json: owner_login of each item
    authorList,    \* processAuthors: const authors
    queue,         \* CrawlState.queue: the shards, pending and done
    cur,           \* position in the queue of the shard being queried
    totalCount,    \* total result count the host reported for the query
    attempts,      \* retries made for the query of the current shard
    backoff,       \* seconds of the backoff the executor last waited
    abandoned,     \* shards given up in the current cycle
    crawlPc,       \* position of the primary crawl
    crawlLog,      \* last line the primary crawl logged
    index,         \* IndexStore: the items of the index, in memory
    artifact,      \* IndexStore: the items of the published artifact
    batch,         \* IndexStore: the argument of the last merge call
    indexOp,       \* IndexStore: the last operation
    srvFile,       \* the file behind the url, on the server
    cacheDb,       \* IndexedDB store plugin_files: the record of the url
    fpc,           \* position of the fetchWithCache call
    cached,        \* fetchWithCache: cached
    head,          \* checkIfFileUpdated: response of the HEAD request
    updated,       \* fetchWithCache: updated
    newMetadata,   \* fetchWithCache: newMetadata
    result,        \* what fetchWithCache returned or threw
    gets,          \* GET requests the call has issued
    response,      \* fetchWithCache: response of the GET request
    hook,          \* useUrlState: searchQuery, viewMode, sortBy, currentPage,
                   \* pageSize, searchOptions
    browser,       \* window.history: its entries, the current one, and the
                   \* last call or event
    app            \* App: activeFilters; the default options; bookkeeping

vars == <<now, stateFile, outputFile, scratchDirs, pc, state,
          startIndex, i, outcome, srvCount, page, allRepos, userRepos, k, foundPluginRepos, tempDir,
          ret, err, log, repoFailed, exitCode, crashSnap,
          continuous, delayMin, oxideItems, crawledItems, authorList,
          queue, cur, totalCount, attempts, backoff, abandoned, crawlPc,
          crawlLog, index, artifact, batch, indexOp,
          srvFile, cacheDb, fpc, cached, head, updated, newMetadata, result,
          gets, response, hook, browser, app>>

\* ------------------------------------------------------------ data values
Absent == [kind |-> "absent"]
Corrupt == [kind |-> "corrupt"]
Valid(d) == [kind |-> "valid", data |-> d]

NoError == <<>>
NoOutcome == [j \in 1..NumAuthors |-> ""]
NoSnap == [phase |-> "none", index |-> 0, at |-> 0, kills |-> 0]

Min(a, b) == IF a < b THEN a ELSE b
Max(a, b) == IF a < b THEN b ELSE a

\* The index files the passes of the crawler run over: every login of the
\* pool's first NumAuthors, an item without owner_login, and logins that
\* occur again in the same and in the other file.
OxideItems == Valid(SubSeq(AuthorPool, 1, NumAuthors) \o <<"", AuthorPool[1]>>)
CrawledItems == Valid(<<AuthorPool[NumAuthors], AuthorPool[1]>>)

\* processAuthors: const authors = this.getAuthorsFromPluginFiles()
authors == authorList

\* authors[i] with the 0-based index of the source.
authorAt(j) == authors[j + 1]

createInitialState(t) ==
    [last_updated |-> t,
     current_author_index |-> 0,
     processed_authors |-> <<>>,
     discovered_repositories |-> <<>>]

\* JSON.parse(readFileSync(stateFile)) of a file written by saveState gives
\* back the object that was written; a truncated file does not parse.
loadState(file, t) ==
    IF file.kind = "valid" THEN file.data ELSE createInitialState(t)

\* (Date.now() - new Date(last_processed).getTime()) / (1000*60*60*24)
daysSinceProcessed(authorData, t) == t - authorData.last_processed

\* The gate with the comparison off by one.
RecentlyProcessed_Inclusive(st, author, t) ==
    /\ author \in DOMAIN st.processed_authors
    /\ daysSinceProcessed(st.processed_authors[author], t) <= FreshDays

\* processAuthors: the freshness gate.
RecentlyProcessed(st, author, t) ==
    /\ author \in DOMAIN st.processed_authors
    /\ daysSinceProcessed(st.processed_authors[author], t) < FreshDays

\* The guard with the comparison off by one.
TooManyRepositories_AtLeast(n) == n >= MaxUserRepos

\* processAuthors: the repository-count guard.
TooManyRepositories(n) == n > MaxUserRepos

SkippedEntry(t, n) ==
    [last_processed |-> t, repositories_found |-> 0, success |-> TRUE,
     error |-> <<"Skipped - too many repositories", n>>]

CompletedEntry(t, found) ==
    [last_processed |-> t, repositories_found |-> found, success |-> TRUE]

FailedEntry(t, e) ==
    [last_processed |-> t, repositories_found |-> 0, success |-> FALSE,
     error |-> e]

\* this.state.processed_authors[author] = entry
SetProcessed(st, author, entry) ==
    [st EXCEPT !.processed_authors = (author :> entry) @@ @]

\* full_name of the n-th repository of an owner.
RepoName(owner, n) == <<owner, n>>

Includes(seq, x) == \E j \in 1..Len(seq) : seq[j] = x

\* The items read from an index file: none when the file does not exist or
\* does not parse (the error is caught and logged).
ItemsOf(file) == IF file.kind = "valid" THEN file.data ELSE <<>>

\* items.forEach(item => { if (owner_login) authors.add(owner_login) }) on a
\* Set, which keeps its elements in the order of their first insertion.
RECURSIVE AddLogins(_, _)
AddLogins(list, items) ==
    IF items = <<>> THEN list
    ELSE LET login == Head(items)
         IN AddLogins(IF login # "" /\ ~Includes(list, login)
                      THEN Append(list, login)
                      ELSE list,
                      Tail(items))

\* The logins collected in an array instead of a Set.
getAuthorsFromPluginFiles_Array(oxide, crawled) ==
    SelectSeq(ItemsOf(oxide) \o ItemsOf(crawled), LAMBDA login : login # "")

\* Array.from(authors) after both files were read.
getAuthorsFromPluginFiles(oxide, crawled) ==
    AddLogins(AddLogins(<<>>, ItemsOf(oxide)), ItemsOf(crawled))

\* Position of a login in the pool, the order of its name.
LoginOrder(a) == CHOOSE j \in 1..Len(AuthorPool) : AuthorPool[j] = a

\* a sorts before b as strings do in Array.prototype.sort().
NameBefore(a, b) ==
    \/ LoginOrder(a[1]) < LoginOrder(b[1])
    \/ a[1] = b[1] /\ a[2] < b[2]

RECURSIVE SortSet(_)
SortSet(S) ==
    IF S = {} THEN <<>>
    ELSE LET m == CHOOSE x \in S : \A y \in S \ {x} : NameBefore(x, y)
         IN <<m>> \o SortSet(S \ {m})

\* [...new Set(discovered_repositories)].sort()
SortedUnique(seq) == SortSet({seq[j] : j \in 1..Len(seq)})

FoundRepositoryData(st, t) ==
    [generated_at |-> t,
     count |-> Len(st.discovered_repositories),
     repositories |-> SortedUnique(st.discovered_repositories)]

\* --------------------------------------------------------------- the start
\* ----------------------------------------------- values of the file cache
\* A header the response does not carry: headers.get() gives null.
NoEtag == 0
NoLastModified == <<"", 0>>

\* new Date(lastModified).getTime() of an HTTP date.
getTime(lastModified) == lastModified[2]

NoEntry == [kind |-> "none"]
NoMetadata == [kind |-> "none"]
NoResponse == [ok |-> FALSE, etag |-> NoEtag, lastModified |-> NoLastModified]
NoResult == [kind |-> "none"]

\* CacheMetadata of the one url.
CacheMetadata(etag, lastModified, t, version) ==
    [kind |-> "metadata", etag |-> etag, lastModified |-> lastModified,
     cachedAt |-> t, version |-> version]

\* CachedData: the record { url, data, metadata } of the store.
CachedData(data, metadata) ==
    [kind |-> "entry", data |-> data, metadata |-> metadata]

\* The file on the server: its content, the second it was last modified in,
\* and which validators the server sends with it.
ServerFile(content, mtime, sendsEtag, sendsLastModified) ==
    [content |-> content, mtime |-> mtime, sendsEtag |-> sendsEtag,
     sendsLastModified |-> sendsLastModified]

\* The headers of an OK response for the file.
ResponseOf(file) ==
    [ok |-> TRUE,
     etag |-> IF file.sendsEtag THEN file.content ELSE NoEtag,
     lastModified |-> IF file.sendsLastModified
                      THEN <<"GMT", file.mtime>>
                      ELSE NoLastModified]

\* ------------------------------------------------ values of the URL state
\* The values parseUrlState accepts.
ValidViews == {"grid", "grouped"}
ValidSorts == {"updated_desc", "updated_asc", "created_desc", "created_asc",
               "indexed_desc", "indexed_asc"}
ValidPageSizes == {12, 24, 30, 48, 60, 96}
ValidFields == <<"plugin_name", "plugin_author", "repo_name",
                 "repo_full_name", "repo_description", "repo_owner",
                 "file_path">>
ValidMatchModes == {"contains", "startsWith", "exact", "regex"}
ValidLogics == {"any", "all"}

\* Text of the search box: empty, blank, a word, the word between blanks.
Queries == {"", " ", "kits", " kits "}

\* String.prototype.trim() on these texts.
trim(s) == CASE s = " " -> ""
             [] s = " kits " -> "kits"
             [] OTHER -> s

\* Number.prototype.toString(): the decimal digits of n, as a string.
toString(n) == <<"digits", n>>
\* A parameter value that is not a number.
NotDigits == <<"text", 0>>
NaN == -1
\* parseInt(s, 10)
parseInt(s) == IF s[1] = "digits" THEN s[2] ELSE NaN

\* Boolean.prototype.toString()
boolToString(b) == IF b THEN "true" ELSE "false"

\* Array.prototype.join(','): a string, kept as its comma-separated parts;
\* the empty array gives the empty string.
join(array) == [parts |-> array]
\* String.prototype.split(','): the empty string gives [''].
split(string) == IF string.parts = <<>> THEN <<"">> ELSE string.parts

\* URLSearchParams: a function from the names that are set to their values.
EmptyParams == <<>>
Has(params, name) == name \in DOMAIN params

\* Arrays of distinct search fields, in any order, out of the first
\* NumFields valid ones (the filter panel toggles fields off and on).
RECURSIVE FieldArrays(_)
FieldArrays(S) ==
    {<<>>} \cup UNION {{<<f>> \o rest : rest \in FieldArrays(S \ {f})} : f \in S}

SearchOptions ==
    [fields : FieldArrays({ValidFields[n] : n \in 1..NumFields}),
     matchMode : ValidMatchModes,
     logic : ValidLogics,
     caseSensitive : BOOLEAN]

\* What getDefaultSearchOptions() (services/searchService) returns is a
\* parameter of the model: it is run with each of these.
DefaultCandidates ==
    <<[fields |-> SubSeq(ValidFields, 1, NumFields), matchMode |-> "contains",
       logic |-> "any", caseSensitive |-> FALSE],
      [fields |-> SubSeq(ValidFields, 1, 1), matchMode |-> "exact",
       logic |-> "all", caseSensitive |-> TRUE]>>

\* The state of the hook before the mount effect has run.
InitialHook(defaults) ==
    [searchQuery |-> "", viewMode |-> "grid", sortBy |-> "updated_desc",
     currentPage |-> 1, pageSize |-> DefaultPageSize,
     searchOptions |-> defaults]

\* The frontend page is not open.
PageClosed ==
    /\ hook = InitialHook(DefaultCandidates[1])
    /\ browser = [history |-> <<EmptyParams>>, pos |-> 1, op |-> ""]
    /\ app = [phase |-> "closed", activeFilters |-> {}, ops |-> 0,
              last |-> "", defaults |-> DefaultCandidates[1]]

\* The finder, the crawl and the index store are not running.
ServicesDown ==
    /\ now = 0
    /\ outputFile = Absent
    /\ scratchDirs = {}
    /\ pc = "down"
    /\ state = createInitialState(0)
    /\ startIndex = 0
    /\ i = 0
    /\ outcome = NoOutcome
    /\ srvCount = 0
    /\ page = 1
    /\ allRepos = 0
    /\ userRepos = 0
    /\ k = 0
    /\ foundPluginRepos = 0
    /\ tempDir = 0
    /\ ret = FALSE
    /\ err = NoError
    /\ log = ""
    /\ repoFailed = FALSE
    /\ exitCode = 0
    /\ crashSnap = NoSnap
    /\ continuous = FALSE
    /\ delayMin = 0
    /\ authorList = <<>>
    /\ queue = <<>>
    /\ cur = 0
    /\ totalCount = 0
    /\ attempts = 0
    /\ backoff = 0
    /\ abandoned = {}
    /\ crawlPc = "start"
    /\ crawlLog = ""
    /\ index = <<>>
    /\ artifact = <<>>
    /\ batch = <<>>
    /\ indexOp = ""
    /\ fpc = "idle"
    /\ cached = NoEntry
    /\ head = NoResponse
    /\ updated = FALSE
    /\ newMetadata = NoMetadata
    /\ result = NoResult
    /\ gets = 0
    /\ response = NoResult

\* No process is running and nothing was written yet.
NotStarted == ServicesDown /\ PageClosed

\* The browser has not fetched the file yet.
CacheEmpty ==
    /\ srvFile = ServerFile(1, 1, TRUE, TRUE)
    /\ cacheDb = NoEntry

Init ==
    /\ NotStarted
    /\ CacheEmpty
    /\ stateFile \in {Absent, Corrupt}
    /\ oxideItems = OxideItems
    /\ crawledItems = CrawledItems

\* The locals of one iteration of the author loop go out of scope.
IterationEnds ==
    /\ srvCount' = 0
    /\ page' = 1
    /\ allRepos' = 0
    /\ userRepos' = 0
    /\ k' = 0
    /\ foundPluginRepos' = 0
    /\ err' = NoError
    /\ repoFailed' = FALSE

\* The memory of a process that is not running.
MemoryGone ==
    /\ state' = createInitialState(0)
    /\ startIndex' = 0
    /\ i' = 0
    /\ outcome' = NoOutcome
    /\ tempDir' = 0
    /\ ret' = FALSE
    /\ continuous' = FALSE
    /\ delayMin' = 0
    /\ authorList' = <<>>
    /\ IterationEnds

files == <<stateFile, outputFile, scratchDirs>>
crawlVars == <<queue, cur, totalCount, attempts, backoff, abandoned,
               crawlPc, crawlLog>>
\* What the author crawler does not write: the index files and the state of
\* the other components.
indexVars == <<index, artifact, batch, indexOp>>
cacheLocals == <<cached, head, updated, newMetadata, result, gets, response>>
cacheVars == <<srvFile, cacheDb, fpc, cacheLocals>>
urlVars == <<hook, browser, app>>
env == <<oxideItems, crawledItems, crawlVars, indexVars, cacheVars, urlVars>>
runLocals == <<continuous, delayMin, authorList>>
pass == <<startIndex, outcome>>
fetchLocals == <<srvCount, page, allRepos>>
cloneLocals == <<tempDir, ret>>
authorLocals == <<userRepos, k, foundPluginRepos, err, repoFailed>>

\* ------------------------------------------------------- process lifecycle
\* CLI entry without GITHUB_TOKEN: process.exit(1) before anything is built.
main_NoToken ==
    /\ pc = "down"
    /\ log' = "Please set GITHUB_TOKEN environment variable"
    /\ exitCode' = 1
    /\ UNCHANGED <<now, env, runLocals, files, pass, pc, state, i, fetchLocals,
                   cloneLocals, authorLocals, crashSnap>>

\* The start with a loadState that lets the parse error escape: main's catch
\* logs it and the process exits with status 1.
main_Start_LoadThrows(modes) ==
    /\ pc = "down"
    /\ IF stateFile.kind = "corrupt"
       THEN /\ log' = "Error:"
            /\ exitCode' = 1
            /\ UNCHANGED <<pc, state, continuous>>
       ELSE /\ state' = loadState(stateFile, now)
            /\ log' = "Starting standalone Author Repository Finder"
            /\ exitCode' = 0
            /\ continuous' \in modes
            /\ pc' = "constructed"
    /\ UNCHANGED <<now, env, delayMin, authorList, files, pass, i, fetchLocals, cloneLocals,
                   authorLocals, crashSnap>>

\* CLI entry with a token: new AuthorRepositoryFinder(token), whose
\* constructor runs createInitialState and loadState; then CONTINUOUS is
\* read from the environment.
main_Start(modes) ==
    /\ pc = "down"
    /\ state' = loadState(stateFile, now)
    /\ log' = IF stateFile.kind = "corrupt"
              THEN "Failed to load state, creating new one"
              ELSE "Starting standalone Author Repository Finder"
    /\ exitCode' = 0
    /\ continuous' \in modes
    /\ pc' = "constructed"
    /\ UNCHANGED <<now, env, delayMin, authorList, files, pass, i, fetchLocals, cloneLocals, authorLocals,
                   crashSnap>>

\* Single-cycle mode (CONTINUOUS unset): processAuthors has returned and
\* main ends.
main_Exit ==
    /\ pc = "done"
    /\ ~continuous
    /\ pc' = "down"
    /\ exitCode' = 0
    /\ log' = "Single cycle completed."
    /\ MemoryGone
    /\ UNCHANGED <<now, env, files, crashSnap>>

\* The process is killed (signal, power loss) at any point of its run.  A
\* scratch directory of a clone in progress stays on disk.
Crash ==
    /\ pc # "down"
    /\ tempDir \in scratchDirs => Cardinality(scratchDirs) <= MaxLeak
    /\ crashSnap.kills < MaxKills
    /\ crashSnap' = [phase |-> "crashed", index |-> i, at |-> now,
                     kills |-> crashSnap.kills + 1]
    /\ pc' = "down"
    /\ exitCode' = 137
    /\ log' = "Killed"
    /\ MemoryGone
    /\ UNCHANGED <<now, env, files>>

\* A day passes after a pass has ended: run() waits for the next cycle, or
\* the process is about to exit and is started again later.  The steps of
\* one pass take seconds.
Tick ==
    /\ pc = "done"
    /\ now < MaxNow
    /\ now' = now + 1
    /\ UNCHANGED <<env, runLocals, files, pass, pc, state, i, fetchLocals,
                   cloneLocals, authorLocals, log, exitCode, crashSnap>>

\* ----------------------------------------------------------- processAuthors
\* Entry of processAuthors: from main or run() after construction, or from
\* run() when its wait is over.  The author list is computed from the index
\* files and startIndex is read from the state.
processAuthors_Begin ==
    /\ pc \in {"constructed", "waiting"}
    /\ authorList' = getAuthorsFromPluginFiles(oxideItems, crawledItems)
    /\ delayMin' = 0
    /\ startIndex' = state.current_author_index
    /\ i' = startIndex'
    /\ outcome' = NoOutcome
    /\ log' = "Found unique authors to process"
    /\ crashSnap' = IF crashSnap.phase = "crashed" /\ pc = "constructed"
                    THEN [crashSnap EXCEPT !.phase = "resumed"]
                    ELSE [NoSnap EXCEPT !.kills = crashSnap.kills]
    /\ pc' = "loop"
    /\ UNCHANGED <<now, env, continuous, files, state, fetchLocals,
                   cloneLocals, authorLocals, exitCode>>

\* Top of the for loop for an author that was processed recently: continue.
processAuthors_SkipRecent ==
    /\ pc = "loop"
    /\ i < Len(authors)
    /\ RecentlyProcessed(state, authorAt(i), now)
    /\ state' = [state EXCEPT !.current_author_index = i]
    /\ log' = "Skipping - processed days ago"
    /\ outcome' = [outcome EXCEPT ![i + 1] = "recent"]
    /\ i' = i + 1
    /\ UNCHANGED <<now, env, runLocals, files, startIndex, pc, fetchLocals, cloneLocals,
                   authorLocals, exitCode, crashSnap>>

\* Top of the for loop for an author that is due: fetchUserRepositories is
\* called; the host holds some number of repositories for the author.
processAuthors_StartAuthor(sizes) ==
    /\ pc = "loop"
    /\ i < Len(authors)
    /\ ~RecentlyProcessed(state, authorAt(i), now)
    /\ state' = [state EXCEPT !.current_author_index = i]
    /\ log' = "Processing author"
    /\ srvCount' \in sizes
    /\ page' = 1
    /\ allRepos' = 0
    /\ pc' = "fetch"
    /\ UNCHANGED <<now, env, runLocals, files, pass, i, cloneLocals,
                   authorLocals, exitCode, crashSnap>>

\* ----------------------------------------------------- fetchUserRepositories
\* Number of entries of a page when the host holds n repositories.
PageLength(n, p) == Max(0, Min(perPage, n - perPage * (p - 1)))

\* An OK response with a full page: push it and ask for the next page.
fetchUserRepositories_NextPage ==
    /\ pc = "fetch"
    /\ PageLength(srvCount, page) = perPage
    /\ allRepos' = allRepos + perPage
    /\ page' = page + 1
    /\ UNCHANGED <<now, env, runLocals, files, pass, pc, state, i, srvCount,
                   cloneLocals, authorLocals, log, exitCode, crashSnap>>

\* The loop breaking on a short page before pushing it.
fetchUserRepositories_LastPage_NotPushed ==
    /\ pc = "fetch"
    /\ PageLength(srvCount, page) < perPage
    /\ allRepos' = allRepos
    /\ userRepos' = allRepos'
    /\ log' = "Found repositories"
    /\ pc' = "guard"
    /\ UNCHANGED <<now, env, runLocals, files, pass, state, i, srvCount, page, k,
                   foundPluginRepos, err, repoFailed, cloneLocals, exitCode,
                   crashSnap>>

\* An OK response with an empty or a short page: break, return allRepos.
fetchUserRepositories_LastPage ==
    /\ pc = "fetch"
    /\ PageLength(srvCount, page) < perPage
    /\ allRepos' = allRepos + PageLength(srvCount, page)
    /\ userRepos' = allRepos'
    /\ log' = "Found repositories"
    /\ pc' = "guard"
    /\ UNCHANGED <<now, env, runLocals, files, pass, state, i, srvCount, page, k,
                   foundPluginRepos, err, repoFailed, cloneLocals, exitCode,
                   crashSnap>>

\* Status 404: return [] whatever was collected so far.
fetchUserRepositories_NotFound ==
    /\ pc = "fetch"
    /\ userRepos' = 0
    /\ log' = "Found repositories"
    /\ pc' = "guard"
    /\ UNCHANGED <<now, env, runLocals, files, pass, state, i, fetchLocals, k,
                   foundPluginRepos, err, repoFailed, cloneLocals, exitCode,
                   crashSnap>>

\* Any other non-OK status: throw new Error(`HTTP ${status}`), logged and
\* rethrown by the inner catch, caught by processAuthors.
fetchUserRepositories_HttpError(statuses) ==
    /\ pc = "fetch"
    /\ \E s \in statuses : err' = <<"HTTP", s>>
    /\ log' = "Error fetching repositories"
    /\ pc' = "catch"
    /\ UNCHANGED <<now, env, runLocals, files, pass, state, i, fetchLocals, userRepos,
                   k, foundPluginRepos, repoFailed, cloneLocals, exitCode,
                   crashSnap>>

\* fetch() itself rejects (no connection): same path as a thrown error.
fetchUserRepositories_NetworkError ==
    /\ pc = "fetch"
    /\ err' = <<"fetch failed", 0>>
    /\ log' = "Error fetching repositories"
    /\ pc' = "catch"
    /\ UNCHANGED <<now, env, runLocals, files, pass, state, i, fetchLocals, userRepos,
                   k, foundPluginRepos, repoFailed, cloneLocals, exitCode,
                   crashSnap>>

\* ------------------------------------------- processAuthors, after the list
\* More than 100 repositories: record the skip and continue with the next
\* author.
\* The guard continuing without an entry for the author.
processAuthors_SkipTooMany_NoEntry ==
    /\ pc = "guard"
    /\ TooManyRepositories(userRepos)
    /\ log' = "Skipping - too many repositories"
    /\ outcome' = [outcome EXCEPT ![i + 1] = "tooMany"]
    /\ i' = i + 1
    /\ pc' = "loop"
    /\ IterationEnds
    /\ UNCHANGED <<now, env, runLocals, files, startIndex, cloneLocals,
                   exitCode, crashSnap, state>>

processAuthors_SkipTooMany ==
    /\ pc = "guard"
    /\ TooManyRepositories(userRepos)
    /\ state' = SetProcessed(state, authorAt(i), SkippedEntry(now, userRepos))
    /\ log' = "Skipping - too many repositories"
    /\ outcome' = [outcome EXCEPT ![i + 1] = "tooMany"]
    /\ i' = i + 1
    /\ pc' = "loop"
    /\ IterationEnds
    /\ UNCHANGED <<now, env, runLocals, files, startIndex, cloneLocals,
                   exitCode, crashSnap>>

\* Otherwise: foundPluginRepos = 0 and the for..of over userRepos begins.
processAuthors_EnterRepos ==
    /\ pc = "guard"
    /\ ~TooManyRepositories(userRepos)
    /\ foundPluginRepos' = 0
    /\ k' = 1
    /\ pc' = IF userRepos = 0 THEN "record" ELSE "repo"
    /\ UNCHANGED <<now, env, runLocals, files, pass, state, i, fetchLocals,
                   cloneLocals, userRepos, err, repoFailed, log, exitCode,
                   crashSnap>>

\* ------------------------------------------------ cloneAndSearchRepository
\* fs.mkdtempSync: a directory with a name not in use.
cloneAndSearchRepository_Mkdtemp ==
    /\ pc = "repo"
    /\ tempDir' = CHOOSE d \in 1..(MaxLeak + 1) : d \notin scratchDirs
    /\ scratchDirs' = scratchDirs \cup {tempDir'}
    /\ ret' = FALSE
    /\ log' = "Cloning"
    /\ pc' = "clone"
    /\ UNCHANGED <<now, env, runLocals, pass, stateFile, outputFile, state, i,
                   fetchLocals, authorLocals, exitCode, crashSnap>>

\* git clone --depth 1 succeeds.
cloneAndSearchRepository_Cloned ==
    /\ pc = "clone"
    /\ pc' = "grep"
    /\ UNCHANGED <<now, env, runLocals, files, pass, state, i, fetchLocals,
                   cloneLocals, authorLocals, log, exitCode, crashSnap>>

\* The timeout path returning without the finally block.
cloneAndSearchRepository_Timeout_NoCleanup ==
    /\ pc = "clone"
    /\ ret' = FALSE
    /\ repoFailed' = TRUE
    /\ log' = "Timeout cloning, skipping"
    /\ pc' = "returned"
    /\ UNCHANGED <<now, env, runLocals, files, pass, state, i, fetchLocals,
                   tempDir, userRepos, k, foundPluginRepos, err, exitCode,
                   crashSnap>>

\* git clone is killed after 30 s: error.signal === 'SIGTERM'.
cloneAndSearchRepository_Timeout ==
    /\ pc = "clone"
    /\ ret' = FALSE
    /\ repoFailed' = TRUE
    /\ log' = "Timeout cloning, skipping"
    /\ pc' = "cleanup"
    /\ UNCHANGED <<now, env, runLocals, files, pass, state, i, fetchLocals, tempDir,
                   userRepos, k, foundPluginRepos, err, exitCode, crashSnap>>

\* The clone error escaping cloneAndSearchRepository: the finally block
\* runs and the error reaches the catch of processAuthors.
cloneAndSearchRepository_CloneError_Rethrown ==
    /\ pc = "clone"
    /\ scratchDirs' = scratchDirs \ {tempDir}
    /\ repoFailed' = TRUE
    /\ err' = <<"Command failed: git clone", 0>>
    /\ log' = "Error processing"
    /\ pc' = "catch"
    /\ UNCHANGED <<now, env, runLocals, pass, stateFile, outputFile, state, i,
                   fetchLocals, cloneLocals, userRepos, k, foundPluginRepos,
                   exitCode, crashSnap>>

\* git clone fails for another reason (network, repository gone).
cloneAndSearchRepository_CloneError ==
    /\ pc = "clone"
    /\ ret' = FALSE
    /\ repoFailed' = TRUE
    /\ log' = "Error processing"
    /\ pc' = "cleanup"
    /\ UNCHANGED <<now, env, runLocals, files, pass, state, i, fetchLocals, tempDir,
                   userRepos, k, foundPluginRepos, err, exitCode, crashSnap>>

\* grep prints a matching line: return true.
cloneAndSearchRepository_Found ==
    /\ pc = "grep"
    /\ k <= MarkerRepos
    /\ ret' = TRUE
    /\ log' = "Found Oxide plugins"
    /\ pc' = "cleanup"
    /\ UNCHANGED <<now, env, runLocals, files, pass, state, i, fetchLocals, tempDir,
                   authorLocals, exitCode, crashSnap>>

\* grep exits with status 1, no match: return false.
cloneAndSearchRepository_NoMatch ==
    /\ pc = "grep"
    /\ ret' = FALSE
    /\ pc' = "cleanup"
    /\ UNCHANGED <<now, env, runLocals, files, pass, state, i, fetchLocals, tempDir,
                   authorLocals, log, exitCode, crashSnap>>

\* grep fails otherwise (status 2, timeout): rethrown to the outer catch,
\* which logs and returns false.
cloneAndSearchRepository_GrepError ==
    /\ pc = "grep"
    /\ ret' = FALSE
    /\ repoFailed' = TRUE
    /\ log' = "Error processing"
    /\ pc' = "cleanup"
    /\ UNCHANGED <<now, env, runLocals, files, pass, state, i, fetchLocals, tempDir,
                   userRepos, k, foundPluginRepos, err, exitCode, crashSnap>>

\* finally: fs.rmSync(tempDir, {recursive, force}) removes the directory.
cloneAndSearchRepository_Cleanup ==
    /\ pc = "cleanup"
    /\ scratchDirs' = scratchDirs \ {tempDir}
    /\ pc' = "returned"
    /\ UNCHANGED <<now, env, runLocals, pass, stateFile, outputFile, state, i,
                   fetchLocals, cloneLocals, authorLocals, log, exitCode,
                   crashSnap>>

\* finally: fs.rmSync throws; the error is caught and only warned about.
cloneAndSearchRepository_CleanupFailed ==
    /\ pc = "cleanup"
    /\ Cardinality(scratchDirs) <= MaxLeak
    /\ log' = "Failed to cleanup"
    /\ pc' = "returned"
    /\ UNCHANGED <<now, env, runLocals, files, pass, state, i, fetchLocals,
                   cloneLocals, authorLocals, exitCode, crashSnap>>

\* The for..of over userRepos ending after its first repository.
processAuthors_AfterRepo_Break ==
    /\ pc = "returned"
    /\ foundPluginRepos' = IF ret THEN foundPluginRepos + 1
                           ELSE foundPluginRepos
    /\ tempDir' = 0
    /\ ret' = FALSE
    /\ k' = k + 1
    /\ pc' = "record"
    /\ UNCHANGED <<now, env, runLocals, files, pass, state, i, fetchLocals,
                   userRepos, err, repoFailed, log, exitCode, crashSnap>>

\* Back in processAuthors: count and record a discovery, next repository.
\* The push without the includes() test.
processAuthors_AfterRepo_Unchecked ==
    /\ pc = "returned"
    /\ LET name == RepoName(authorAt(i), k)
       IN /\ foundPluginRepos' = IF ret THEN foundPluginRepos + 1
                                 ELSE foundPluginRepos
          /\ state' = IF ret
                      THEN [state EXCEPT !.discovered_repositories =
                                             Append(@, name)]
                      ELSE state
          /\ log' = IF ret THEN "Discovered new plugin repository" ELSE log
    /\ tempDir' = 0
    /\ ret' = FALSE
    /\ k' = k + 1
    /\ pc' = IF k + 1 > userRepos THEN "record" ELSE "repo"
    /\ UNCHANGED <<now, env, runLocals, files, pass, i, fetchLocals, userRepos, err,
                   repoFailed, exitCode, crashSnap>>

processAuthors_AfterRepo ==
    /\ pc = "returned"
    /\ LET name == RepoName(authorAt(i), k)
       IN /\ foundPluginRepos' = IF ret THEN foundPluginRepos + 1
                                 ELSE foundPluginRepos
          /\ state' = IF ret /\ ~Includes(state.discovered_repositories, name)
                      THEN [state EXCEPT !.discovered_repositories =
                                             Append(@, name)]
                      ELSE state
          /\ log' = IF ret /\ ~Includes(state.discovered_repositories, name)
                    THEN "Discovered new plugin repository"
                    ELSE log
    /\ tempDir' = 0
    /\ ret' = FALSE
    /\ k' = k + 1
    /\ pc' = IF k + 1 > userRepos THEN "record" ELSE "repo"
    /\ UNCHANGED <<now, env, runLocals, files, pass, i, fetchLocals, userRepos, err,
                   repoFailed, exitCode, crashSnap>>

\* All repositories handled: the author's entry with success: true.
processAuthors_Completed ==
    /\ pc = "record"
    /\ state' = SetProcessed(state, authorAt(i),
                             CompletedEntry(now, foundPluginRepos))
    /\ log' = "Completed"
    /\ outcome' = [outcome EXCEPT ![i + 1] = "completed"]
    /\ pc' = "save"
    /\ UNCHANGED <<now, env, runLocals, files, startIndex, i, fetchLocals, cloneLocals,
                   authorLocals, exitCode, crashSnap>>

\* The catch of processAuthors letting the error go on: it reaches main,
\* which logs it and exits with status 1.
processAuthors_Failed_Rethrown ==
    /\ pc = "catch"
    /\ log' = "Error:"
    /\ exitCode' = 1
    /\ pc' = "down"
    /\ MemoryGone
    /\ UNCHANGED <<now, env, files, crashSnap>>

\* catch (error): the author's entry with success: false and the message.
processAuthors_Failed ==
    /\ pc = "catch"
    /\ state' = SetProcessed(state, authorAt(i), FailedEntry(now, err))
    /\ log' = "Failed to process"
    /\ outcome' = [outcome EXCEPT ![i + 1] = "failed"]
    /\ pc' = "save"
    /\ UNCHANGED <<now, env, runLocals, files, startIndex, i, fetchLocals, cloneLocals,
                   authorLocals, exitCode, crashSnap>>

\* saveState: last_updated is set and fs.writeFileSync opens the file,
\* truncating it; until the write ends the file holds part of the text.
saveState_Open ==
    /\ pc = "save"
    /\ state' = [state EXCEPT !.last_updated = now]
    /\ stateFile' = Corrupt
    /\ pc' = "saving"
    /\ UNCHANGED <<now, env, runLocals, pass, outputFile, scratchDirs, i, fetchLocals,
                   cloneLocals, authorLocals, log, exitCode, crashSnap>>

\* saveState: the write has ended.
saveState_Written ==
    /\ pc = "saving"
    /\ stateFile' = Valid(state)
    /\ pc' = "saveOut"
    /\ UNCHANGED <<now, env, runLocals, pass, outputFile, scratchDirs, state, i,
                   fetchLocals, cloneLocals, authorLocals, log, exitCode,
                   crashSnap>>

\* saveDiscoveredRepositories: fs.writeFileSync opens the output file.
saveDiscoveredRepositories_Open ==
    /\ pc = "saveOut"
    /\ outputFile' = Corrupt
    /\ pc' = "savingOut"
    /\ UNCHANGED <<now, env, runLocals, pass, stateFile, scratchDirs, state, i,
                   fetchLocals, cloneLocals, authorLocals, log, exitCode,
                   crashSnap>>

\* saveDiscoveredRepositories: the write has ended; inside the loop the
\* delay between authors follows, after the loop processAuthors returns.
saveDiscoveredRepositories_Written ==
    /\ pc = "savingOut"
    /\ outputFile' = Valid(FoundRepositoryData(state, now))
    /\ pc' = IF i < Len(authors) THEN "delay" ELSE "done"
    /\ log' = IF i < Len(authors) THEN log
              ELSE "Completed processing all authors"
    /\ UNCHANGED <<now, env, runLocals, pass, stateFile, scratchDirs, state, i,
                   fetchLocals, cloneLocals, authorLocals, exitCode,
                   crashSnap>>

\* The 2 s delay is over: i++.
processAuthors_NextAuthor ==
    /\ pc = "delay"
    /\ i' = i + 1
    /\ pc' = "loop"
    /\ IterationEnds
    /\ UNCHANGED <<now, env, runLocals, files, pass, state, cloneLocals, log,
                   exitCode, crashSnap>>

\* The loop has run off the list: reset the index and save once more.
\* The end of the loop without the reset of the index.
processAuthors_LoopExit_NoReset ==
    /\ pc = "loop"
    /\ i >= Len(authors)
    /\ pc' = "save"
    /\ UNCHANGED <<now, env, runLocals, files, pass, i, fetchLocals, cloneLocals,
                   authorLocals, log, exitCode, crashSnap, state>>

processAuthors_LoopExit ==
    /\ pc = "loop"
    /\ i >= Len(authors)
    /\ state' = [state EXCEPT !.current_author_index = 0]
    /\ pc' = "save"
    /\ UNCHANGED <<now, env, runLocals, files, pass, i, fetchLocals, cloneLocals,
                   authorLocals, log, exitCode, crashSnap>>

\* ------------------------------------------------ errors that leave a pass
\* saveState: fs.writeFileSync throws (disk full, no permission), before or
\* after the file was truncated.  The call is outside the try of the author
\* loop, so the error leaves processAuthors.
saveState_WriteError ==
    /\ pc = "save"
    /\ state' = [state EXCEPT !.last_updated = now]
    /\ stateFile' \in {stateFile, Corrupt}
    /\ pc' = "escaped"
    /\ UNCHANGED <<now, env, runLocals, pass, outputFile, scratchDirs, i,
                   fetchLocals, cloneLocals, authorLocals, log, exitCode,
                   crashSnap>>

\* saveDiscoveredRepositories: fs.writeFileSync throws.
saveDiscoveredRepositories_WriteError ==
    /\ pc = "saveOut"
    /\ outputFile' \in {outputFile, Corrupt}
    /\ pc' = "escaped"
    /\ UNCHANGED <<now, env, runLocals, pass, stateFile, scratchDirs, state,
                   i, fetchLocals, cloneLocals, authorLocals, log, exitCode,
                   crashSnap>>

\* run() with the error going on to its caller: main logs it and the
\* process exits with status 1.
run_Catch_Rethrown ==
    /\ pc = "escaped"
    /\ continuous
    /\ log' = "Error:"
    /\ exitCode' = 1
    /\ pc' = "down"
    /\ MemoryGone
    /\ UNCHANGED <<now, env, files, crashSnap>>

\* run(): catch (error) logs it and waits 5 minutes; the while loop then
\* calls processAuthors again.
run_Catch ==
    /\ pc = "escaped"
    /\ continuous
    /\ log' = "Error in main loop"
    /\ delayMin' = ErrorDelayMin
    /\ pc' = "waiting"
    /\ IterationEnds
    /\ UNCHANGED <<now, env, continuous, authorList, files, pass, state, i,
                   cloneLocals, exitCode, crashSnap>>

\* run(): processAuthors has returned; wait 1 hour before the next cycle.
run_CycleCompleted ==
    /\ pc = "done"
    /\ continuous
    /\ log' = "Cycle completed. Waiting 1 hour before next cycle"
    /\ delayMin' = CycleDelayMin
    /\ pc' = "waiting"
    /\ UNCHANGED <<now, env, continuous, authorList, files, pass, state, i,
                   fetchLocals, cloneLocals, authorLocals, exitCode,
                   crashSnap>>

\* main(): catch (error) in single-cycle mode: console.error("Error:") and
\* process.exit(1).
main_Catch ==
    /\ pc = "escaped"
    /\ ~continuous
    /\ log' = "Error:"
    /\ exitCode' = 1
    /\ pc' = "down"
    /\ MemoryGone
    /\ UNCHANGED <<now, env, files, crashSnap>>

\* The steps of the program and of the host.
\* The steps of processAuthors and of what it calls.
PassSteps(sizes, statuses) ==
    \/ processAuthors_Begin
    \/ processAuthors_SkipRecent
    \/ processAuthors_StartAuthor(sizes)
    \/ fetchUserRepositories_NextPage
    \/ fetchUserRepositories_LastPage
    \/ fetchUserRepositories_NotFound
    \/ fetchUserRepositories_HttpError(statuses)
    \/ fetchUserRepositories_NetworkError
    \/ processAuthors_SkipTooMany
    \/ processAuthors_EnterRepos
    \/ cloneAndSearchRepository_Mkdtemp
    \/ cloneAndSearchRepository_Cloned
    \/ cloneAndSearchRepository_Timeout
    \/ cloneAndSearchRepository_CloneError
    \/ cloneAndSearchRepository_Found
    \/ cloneAndSearchRepository_NoMatch
    \/ cloneAndSearchRepository_GrepError
    \/ cloneAndSearchRepository_Cleanup
    \/ processAuthors_AfterRepo
    \/ processAuthors_Completed
    \/ processAuthors_Failed
    \/ saveState_Open
    \/ saveState_Written
    \/ saveDiscoveredRepositories_Open
    \/ saveDiscoveredRepositories_Written
    \/ processAuthors_NextAuthor
    \/ processAuthors_LoopExit

Steps(sizes, statuses, modes) ==
    \/ main_NoToken
    \/ main_Start(modes)
    \/ main_Exit
    \/ PassSteps(sizes, statuses)

\* Runs within one day in which the process may be killed and restarted and
\* the removal of a scratch directory may fail.
Next ==
    \/ Steps(ListSizes, FailStatuses, SingleCycle)
    \/ cloneAndSearchRepository_CleanupFailed
    \/ Crash

Spec == Init /\ [][Next]_vars

\* Runs over several days without a kill or a failed removal, with a token
\* the host accepts.
NextClock == Steps(ListSizes, RateLimitStatuses, SingleCycle) \/ Tick

SpecClock == Init /\ [][NextClock]_vars

\* Runs within one day without a kill or a failed removal, over accounts whose
\* repository count is at the limit of the repository-count guard or next to
\* it.
NextLarge == Steps(LargeListSizes, FailStatuses, SingleCycle)

SpecLarge == Init /\ [][NextLarge]_vars

\* Runs within one day in either mode, in which writing a file may fail.
NextRun ==
    \/ Steps(ListSizes, RateLimitStatuses, BothModes)
    \/ saveState_WriteError
    \/ saveDiscoveredRepositories_WriteError
    \/ run_Catch
    \/ run_CycleCompleted
    \/ main_Catch

SpecRun == Init /\ [][NextRun]_vars

\* Pass after pass of one process in continuous mode, days apart, so that
\* authors become due again.
NextPasses ==
    \/ main_Start({TRUE})
    \/ PassSteps(ListSizes, RateLimitStatuses)
    \/ run_CycleCompleted
    \/ Tick

SpecPasses == Init /\ [][NextPasses]_vars

\* ------------------------------------------- the author list of any index
\* The logins of the pool in use.
Logins == {AuthorPool[j] : j \in 1..NumAuthors}

\* What an index file can hold: nothing (no file), text that does not parse,
\* or up to MaxItems items, each with an owner_login or without one.
IndexContents ==
    {Absent, Corrupt} \cup
    {Valid(items) : items \in UNION {[1..n -> Logins \cup {""}] :
                                        n \in 0..MaxItems}}

\* The state file as saveState leaves it after the author at position n, when
\* the authors up to that position had no repositories.
PersistedAt(n) ==
    Valid([createInitialState(0) EXCEPT
               !.current_author_index = n,
               !.processed_authors =
                   [a \in {AuthorPool[j] : j \in 1..(n + 1)}
                      |-> CompletedEntry(0, 0)]])

\* A start of the crawler on any index content and on any state file an
\* earlier, killed run can have left.
InitAuthors ==
    /\ NotStarted
    /\ CacheEmpty
    /\ stateFile \in {Absent, Corrupt}
                      \cup {PersistedAt(n) : n \in 0..(NumAuthors - 1)}
    /\ oxideItems \in IndexContents
    /\ crawledItems \in IndexContents

\* The start of a pass: construction, then the entry of processAuthors.
NextAuthors ==
    \/ main_Start(SingleCycle)
    \/ processAuthors_Begin

SpecAuthors == InitAuthors /\ [][NextAuthors]_vars

\* A week goes by while no process is running.
Downtime ==
    /\ pc = "down"
    /\ now + FreshDays <= MaxNow
    /\ now' = now + FreshDays
    /\ UNCHANGED <<env, runLocals, files, pass, pc, state, i, fetchLocals,
                   cloneLocals, authorLocals, log, exitCode, crashSnap>>

\* A start on no state file or on one that an earlier, killed run has left,
\* with each index file there or missing.
InitDue ==
    /\ NotStarted
    /\ CacheEmpty
    /\ stateFile \in {Absent} \cup {PersistedAt(n) : n \in 0..(NumAuthors - 1)}
    /\ oxideItems \in {OxideItems, Absent}
    /\ crawledItems \in {CrawledItems, Absent}

\* One pass of a process started at once or a week later, in which no call
\* hangs: the loop is sequential and every awaited call settles.
NextDue ==
    \/ Downtime
    \/ main_Start(SingleCycle)
    \/ PassSteps(ListSizes, RateLimitStatuses)

SpecDue ==
    /\ InitDue
    /\ [][NextDue]_vars
    /\ WF_vars(PassSteps(ListSizes, RateLimitStatuses))

\* ============================================================ primary crawl
\* ShardPlanner and SearchExecutor, as the specification describes them.
finderVars == <<now, stateFile, outputFile, scratchDirs, pc, state,
                startIndex, i, outcome, srvCount, page, allRepos, userRepos,
                k, foundPluginRepos, tempDir, ret, err, log, repoFailed,
                exitCode, crashSnap, continuous, delayMin, oxideItems,
                crawledItems, authorList>>

notCrawl == <<finderVars, indexVars, cacheVars, urlVars>>

ForkModes == <<"excluded", "only">>

\* Total counts the host may report: none, just below the cap, the cap, more.
Counts == {0, PageCap - 1, PageCap, PageCap + 1}

SearchShard(lo, hi, mode) ==
    [sizeRangeMin |-> lo, sizeRangeMax |-> hi, forkMode |-> mode,
     status |-> "pending", overflow |-> FALSE]

\* Number of fixed-width ranges that divide [0, MAX_SIZE].
NumBaseRanges == (MAX_SIZE \div BaseWidth) + 1

\* initialize(): every base range crossed with the two fork modes.
initialize ==
    [n \in 1..(2 * NumBaseRanges) |->
        LET r == (n - 1) \div 2
        IN SearchShard(r * BaseWidth,
                       Min((r + 1) * BaseWidth - 1, MAX_SIZE),
                       ForkModes[((n - 1) % 2) + 1])]

ShardKey(s) == <<s.sizeRangeMin, s.sizeRangeMax, s.forkMode>>

\* nextPending(): position of the first pending shard not given up in this
\* cycle, 0 when there is none.
nextPending(q, skip) ==
    LET P == {j \in 1..Len(q) : /\ q[j].status = "pending"
                                /\ ShardKey(q[j]) \notin skip}
    IN IF P = {} THEN 0 ELSE CHOOSE j \in P : \A j2 \in P : j <= j2

Width(s) == s.sizeRangeMax - s.sizeRangeMin

\* The halves with the middle size in both of them.
Bisect_SharedMiddle(s) ==
    LET mid == (s.sizeRangeMin + s.sizeRangeMax) \div 2
    IN <<SearchShard(s.sizeRangeMin, mid, s.forkMode),
         SearchShard(mid, s.sizeRangeMax, s.forkMode)>>

\* The two halves of a shard's size range.
Bisect(s) ==
    LET mid == (s.sizeRangeMin + s.sizeRangeMax) \div 2
    IN <<SearchShard(s.sizeRangeMin, mid, s.forkMode),
         SearchShard(mid + 1, s.sizeRangeMax, s.forkMode)>>

RemoveAt(q, j) == SubSeq(q, 1, j - 1) \o SubSeq(q, j + 1, Len(q))

\* recordResult that splits only above the cap.
recordResult_AboveCapOnly(q, j, count) ==
    IF count > PageCap
    THEN IF Width(q[j]) <= 1
         THEN [q EXCEPT ![j].status = "done", ![j].overflow = TRUE]
         ELSE RemoveAt(q, j) \o Bisect(q[j])
    ELSE [q EXCEPT ![j].status = "done"]

\* recordResult that drops a shard it cannot halve.
recordResult_DropsNarrow(q, j, count) ==
    IF count >= PageCap
    THEN IF Width(q[j]) <= 1
         THEN RemoveAt(q, j)
         ELSE RemoveAt(q, j) \o Bisect(q[j])
    ELSE [q EXCEPT ![j].status = "done"]

\* recordResult that flags a shard it cannot halve and leaves it pending.
recordResult_NarrowStaysPending(q, j, count) ==
    IF count >= PageCap
    THEN IF Width(q[j]) <= 1
         THEN [q EXCEPT ![j].overflow = TRUE]
         ELSE RemoveAt(q, j) \o Bisect(q[j])
    ELSE [q EXCEPT ![j].status = "done"]

\* recordResult(shard, totalCount): at or above the cap the shard is
\* discarded and its halves are enqueued as pending, unless it cannot be
\* halved, when it is flagged as an overflow partition; below the cap it is
\* marked done.
recordResult(q, j, count) ==
    IF count >= PageCap
    THEN IF Width(q[j]) <= 1
         THEN [q EXCEPT ![j].status = "done", ![j].overflow = TRUE]
         ELSE RemoveAt(q, j) \o Bisect(q[j])
    ELSE [q EXCEPT ![j].status = "done"]

RECURSIVE Pow2(_)
Pow2(n) == IF n = 0 THEN 1 ELSE 2 * Pow2(n - 1)

\* No persisted queue exists: build the base shards.
ShardPlanner_initialize ==
    /\ crawlPc = "start"
    /\ queue' = initialize
    /\ crawlLog' = "initialized"
    /\ crawlPc' = "next"
    /\ UNCHANGED <<notCrawl, cur, totalCount, attempts, backoff,
                   abandoned>>

\* The driver asks for the next pending shard; none ends the cycle.
ShardPlanner_nextPending ==
    /\ crawlPc = "next"
    /\ cur' = nextPending(queue, abandoned)
    /\ attempts' = 0
    /\ backoff' = 0
    /\ totalCount' = 0
    /\ crawlPc' = IF cur' = 0 THEN "cycleEnd" ELSE "query"
    /\ UNCHANGED <<notCrawl, queue, abandoned, crawlLog>>

\* The query of the shard is answered: the host reports a total count.
SearchExecutor_Success ==
    /\ crawlPc = "query"
    /\ totalCount' \in Counts
    /\ crawlPc' = "result"
    /\ UNCHANGED <<notCrawl, queue, cur, attempts, backoff, abandoned,
                   crawlLog>>

\* The executor giving up the shard by marking it done.
SearchExecutor_RetriesExhausted_MarksDone ==
    /\ crawlPc = "query"
    /\ attempts = MaxRetries
    /\ queue' = [queue EXCEPT ![cur].status = "done"]
    /\ crawlLog' = "retryable failure"
    /\ crawlPc' = "next"
    /\ UNCHANGED <<notCrawl, cur, totalCount, attempts, backoff,
                   abandoned>>

\* HTTP 429/403 with retries left: wait the backoff, which doubles with
\* every retry, and query again.
SearchExecutor_RateLimited ==
    /\ crawlPc = "query"
    /\ attempts < MaxRetries
    /\ backoff' = BaseBackoff * Pow2(attempts)
    /\ attempts' = attempts + 1
    /\ crawlLog' = "rate limited, backing off"
    /\ UNCHANGED <<notCrawl, queue, cur, totalCount, abandoned, crawlPc>>

\* HTTP 429/403 after the last retry: a retryable failure; the shard stays
\* pending and the run goes on with the next shard.
SearchExecutor_RetriesExhausted ==
    /\ crawlPc = "query"
    /\ attempts = MaxRetries
    /\ abandoned' = abandoned \cup {ShardKey(queue[cur])}
    /\ crawlLog' = "retryable failure"
    /\ crawlPc' = "next"
    /\ UNCHANGED <<notCrawl, queue, cur, totalCount, attempts, backoff>>

\* An authentication or malformed-request failure: fatal, the run aborts.
SearchExecutor_Fatal ==
    /\ crawlPc = "query"
    /\ crawlLog' = "fatal failure"
    /\ crawlPc' = "aborted"
    /\ UNCHANGED <<notCrawl, queue, cur, totalCount, attempts, backoff,
                   abandoned>>

\* The total count is fed to the planner.
ShardPlanner_recordResult ==
    /\ crawlPc = "result"
    /\ queue' = recordResult(queue, cur, totalCount)
    /\ crawlLog' = IF totalCount >= PageCap /\ Width(queue[cur]) <= 1
                   THEN "overflow partition"
                   ELSE "recorded"
    /\ crawlPc' = "next"
    /\ UNCHANGED <<notCrawl, cur, totalCount, attempts, backoff,
                   abandoned>>

\* The next cycle takes up the shards that were given up.
Driver_NextCycle ==
    /\ crawlPc = "cycleEnd"
    /\ abandoned # {}
    /\ abandoned' = {}
    /\ crawlLog' = "cycle started"
    /\ crawlPc' = "next"
    /\ UNCHANGED <<notCrawl, queue, cur, totalCount, attempts, backoff>>

InitCrawl ==
    /\ NotStarted
    /\ CacheEmpty
    /\ stateFile = Absent
    /\ oxideItems = OxideItems
    /\ crawledItems = CrawledItems

NextCrawl ==
    \/ ShardPlanner_initialize
    \/ ShardPlanner_nextPending
    \/ SearchExecutor_Success
    \/ SearchExecutor_RateLimited
    \/ SearchExecutor_RetriesExhausted
    \/ SearchExecutor_Fatal
    \/ ShardPlanner_recordResult
    \/ Driver_NextCycle

SpecCrawl == InitCrawl /\ [][NextCrawl]_vars

\* One pass in which every shard query returns a total count. The driver is
\* one sequential loop: it takes its next step whenever there is one.
NextPass ==
    \/ ShardPlanner_initialize
    \/ ShardPlanner_nextPending
    \/ SearchExecutor_Success
    \/ ShardPlanner_recordResult

SpecPass == InitCrawl /\ [][NextPass]_vars /\ WF_vars(NextPass)

\* ============================================================== index store
\* Deduplicator/IndexStore, as the specification describes it.
notIndex == <<finderVars, crawlVars, cacheVars, urlVars>>

\* (repository.full_name, file.path, file.sha) of the files the search can
\* return: a file, the same file after a commit, another file.
KeyPool == <<<<"alice/plugins", "Kits.cs", "sha1">>,
             <<"alice/plugins", "Kits.cs", "sha2">>,
             <<"bob/oxide", "Kits.cs", "sha1">>,
             <<"bob/oxide", "Shop.cs", "sha3">>>>

\* A parsed search hit: its key fields and the time it was indexed.
IndexItems ==
    {[full_name |-> KeyPool[n][1], path |-> KeyPool[n][2],
      sha |-> KeyPool[n][3], indexed_at |-> t] :
         n \in 1..NumKeys, t \in {0, 1}}

\* The hits of one page, all parsed at the same time; a page may name one
\* file more than once.
Batches ==
    {[n \in 1..Len(keys) |->
         [full_name |-> KeyPool[keys[n]][1], path |-> KeyPool[keys[n]][2],
          sha |-> KeyPool[keys[n]][3], indexed_at |-> t]] :
       keys \in UNION {[1..n -> 1..NumKeys] : n \in 0..MaxBatch},
       t \in {0, 1}}

\* The uniqueness key of an item.
KeyOf(item) == <<item.full_name, item.path, item.sha>>

HasKey(idx, key) == \E j \in 1..Len(idx) : KeyOf(idx[j]) = key

\* merge that looks candidates up in the index as it was before the call.
merge_StaleLookup(idx, newItems) ==
    idx \o SelectSeq(newItems, LAMBDA item : ~HasKey(idx, KeyOf(item)))

\* merge(newItems): each candidate whose key is not in the index yet is
\* added; the others are skipped.
RECURSIVE merge(_, _)
merge(idx, newItems) ==
    IF newItems = <<>> THEN idx
    ELSE merge(IF HasKey(idx, KeyOf(Head(newItems)))
               THEN idx
               ELSE Append(idx, Head(newItems)),
               Tail(newItems))

\* A run starts: the index is read from the artifact.
IndexStore_load ==
    /\ indexOp # "load"
    /\ index' = artifact
    /\ batch' = <<>>
    /\ indexOp' = "load"
    /\ UNCHANGED <<notIndex, artifact>>

\* The hits of a page were parsed and are merged.
IndexStore_merge ==
    /\ \E newItems \in Batches :
           /\ batch' = newItems
           /\ index' = merge(index, newItems)
    /\ indexOp' = "merge"
    /\ UNCHANGED <<notIndex, artifact>>

\* flush(): the full index replaces the artifact.
IndexStore_flush ==
    /\ indexOp = "merge"
    /\ artifact' = index
    /\ indexOp' = "flush"
    /\ UNCHANGED <<notIndex, index, batch>>

NextIndex ==
    \/ IndexStore_load
    \/ IndexStore_merge
    \/ IndexStore_flush

SpecIndex == InitCrawl /\ [][NextIndex]_vars

\* ================================================= file cache of the frontend
\* CacheService (src/frontend/src/services/cacheService.ts), for one url.
notCache == <<finderVars, crawlVars, indexVars, urlVars>>

\* The version check comparing the wrong way round.
isCacheVersionOutdated_Inverted(metadata) == metadata.version = CACHE_VERSION

isCacheVersionOutdated(metadata) == metadata.version # CACHE_VERSION

\* checkIfFileUpdated after the HEAD request was answered with resp.
checkIfFileUpdated(resp, cachedEntry, t) ==
    IF ~resp.ok
    THEN [updated |-> TRUE, newMetadata |-> NoMetadata]
    ELSE LET etag == resp.etag
             lastModified == resp.lastModified
             meta == CacheMetadata(etag, lastModified, t, CACHE_VERSION)
         IN IF cachedEntry.kind = "none"
            THEN [updated |-> TRUE, newMetadata |-> meta]
            ELSE LET cachedMetadata == cachedEntry.metadata
                     etagChanged ==
                         /\ etag # NoEtag
                         /\ cachedMetadata.etag # NoEtag
                         /\ etag # cachedMetadata.etag
                     lastModifiedChanged ==
                         /\ lastModified # NoLastModified
                         /\ cachedMetadata.lastModified # NoLastModified
                         /\ getTime(lastModified)
                                # getTime(cachedMetadata.lastModified)
                 IN [updated |-> \/ etagChanged
                                 \/ lastModifiedChanged
                                 \/ isCacheVersionOutdated(cachedMetadata),
                     newMetadata |-> meta]

Returned(data) == [kind |-> "data", data |-> data]
Thrown == [kind |-> "error"]

\* The file changes on the server, in the second of the last change or in a
\* later one.
Server_Update ==
    /\ srvFile.content < MaxContent
    /\ \E t \in {srvFile.mtime, srvFile.mtime + 1} :
           srvFile' = [srvFile EXCEPT !.content = @ + 1, !.mtime = t]
    /\ UNCHANGED <<notCache, cacheDb, fpc, cacheLocals>>

\* A caller (ApiService) calls fetchWithCache(url).
fetchWithCache_Call ==
    /\ fpc \in {"idle", "returned", "threw"}
    /\ fpc' = "lookup"
    /\ cached' = NoEntry
    /\ head' = NoResponse
    /\ updated' = FALSE
    /\ newMetadata' = NoMetadata
    /\ result' = NoResult
    /\ gets' = 0
    /\ response' = NoResult
    /\ UNCHANGED <<notCache, srvFile, cacheDb>>

\* getFromIndexedDB: the store answers with the record or with nothing; the
\* HEAD request is sent.
getFromIndexedDB_Answered ==
    /\ fpc = "lookup"
    /\ cached' = cacheDb
    /\ fpc' = "head"
    /\ UNCHANGED <<notCache, srvFile, cacheDb, head, updated, newMetadata,
                   result, gets, response>>

\* getFromIndexedDB: the database cannot be opened; warned, null.
getFromIndexedDB_Unavailable ==
    /\ fpc = "lookup"
    /\ cached' = NoEntry
    /\ fpc' = "head"
    /\ UNCHANGED <<notCache, srvFile, cacheDb, head, updated, newMetadata,
                   result, gets, response>>

\* The HEAD request is answered OK: checkIfFileUpdated compares the
\* validators; fetchWithCache returns the cached data or sends the GET.
checkIfFileUpdated_Head ==
    /\ fpc = "head"
    /\ head' = ResponseOf(srvFile)
    /\ LET check == checkIfFileUpdated(head', cached, now)
       IN /\ updated' = check.updated
          /\ newMetadata' = check.newMetadata
          /\ IF cached.kind = "entry" /\ ~check.updated
             THEN /\ result' = Returned(cached.data)
                  /\ fpc' = "returned"
                  /\ gets' = gets
             ELSE /\ result' = result
                  /\ fpc' = "get"
                  /\ gets' = gets + 1
    /\ UNCHANGED <<notCache, srvFile, cacheDb, cached, response>>

\* The HEAD request fails (non-OK status, no connection): treated as
\* updated, the GET is sent.
checkIfFileUpdated_HeadFails ==
    /\ fpc = "head"
    /\ head' = NoResponse
    /\ updated' = TRUE
    /\ newMetadata' = NoMetadata
    /\ fpc' = "get"
    /\ gets' = gets + 1
    /\ UNCHANGED <<notCache, srvFile, cacheDb, cached, result, response>>

\* The metadata stored with downloaded data: that of the HEAD response, or,
\* without one, that of the GET response.
MetadataToStore(meta, file, t) ==
    IF meta.kind = "metadata" THEN meta
    ELSE CacheMetadata(ResponseOf(file).etag, ResponseOf(file).lastModified,
                       t, CACHE_VERSION)

\* The GET is answered OK and the record is stored: return the data.
fetchWithCache_GetOk ==
    /\ fpc = "get"
    /\ cacheDb' = CachedData(srvFile.content,
                             MetadataToStore(newMetadata, srvFile, now))
    /\ response' = [kind |-> "ok", body |-> srvFile.content]
    /\ result' = Returned(srvFile.content)
    /\ fpc' = "returned"
    /\ UNCHANGED <<notCache, srvFile, cached, head, updated, newMetadata,
                   gets>>

\* The GET is answered OK but the database cannot be opened for the save:
\* warned, the data is returned.
fetchWithCache_GetOk_NotSaved ==
    /\ fpc = "get"
    /\ response' = [kind |-> "ok", body |-> srvFile.content]
    /\ result' = Returned(srvFile.content)
    /\ fpc' = "returned"
    /\ UNCHANGED <<notCache, srvFile, cacheDb, cached, head, updated,
                   newMetadata, gets>>

\* The GET is answered OK but the put request of the save is rejected: the
\* rejection reaches the catch of fetchWithCache, which returns the cached
\* data if there is any, else throws.
fetchWithCache_GetOk_PutRejected ==
    /\ fpc = "get"
    /\ response' = [kind |-> "ok", body |-> srvFile.content]
    /\ result' = IF cached.kind = "entry" THEN Returned(cached.data)
                 ELSE Thrown
    /\ fpc' = IF cached.kind = "entry" THEN "returned" ELSE "threw"
    /\ UNCHANGED <<notCache, srvFile, cacheDb, cached, head, updated,
                   newMetadata, gets>>

\* The catch block without the fallback to the cached data.
fetchWithCache_GetFails_NoFallback ==
    /\ fpc = "get"
    /\ response' = [kind |-> "failed"]
    /\ result' = Thrown
    /\ fpc' = "threw"
    /\ UNCHANGED <<notCache, srvFile, cacheDb, cached, head, updated,
                   newMetadata, gets>>

\* The GET fails (non-OK status, no connection, body not JSON): the cached
\* data if there is any, else the error.
fetchWithCache_GetFails ==
    /\ fpc = "get"
    /\ response' = [kind |-> "failed"]
    /\ result' = IF cached.kind = "entry" THEN Returned(cached.data)
                 ELSE Thrown
    /\ fpc' = IF cached.kind = "entry" THEN "returned" ELSE "threw"
    /\ UNCHANGED <<notCache, srvFile, cacheDb, cached, head, updated,
                   newMetadata, gets>>

\* clearCache(): the user empties the store from the cache manager.
CacheService_clearCache ==
    /\ fpc \in {"idle", "returned", "threw"}
    /\ cacheDb # NoEntry
    /\ cacheDb' = NoEntry
    /\ UNCHANGED <<notCache, srvFile, fpc, cacheLocals>>

\* A record written by a release with an older CACHE_VERSION.
OlderEntry(file) ==
    CachedData(file.content,
               CacheMetadata(ResponseOf(file).etag,
                             ResponseOf(file).lastModified, 0,
                             CACHE_VERSION - 1))

\* A browser with an empty store or with a record of an older release, and a
\* server that sends both validators, one of them or none.
InitCache ==
    /\ NotStarted
    /\ stateFile = Absent
    /\ oxideItems = OxideItems
    /\ crawledItems = CrawledItems
    /\ \E e, l \in BOOLEAN : srvFile = ServerFile(1, 1, e, l)
    /\ cacheDb \in {NoEntry, OlderEntry(srvFile)}

NextCache ==
    \/ Server_Update
    \/ fetchWithCache_Call
    \/ getFromIndexedDB_Answered
    \/ getFromIndexedDB_Unavailable
    \/ checkIfFileUpdated_Head
    \/ checkIfFileUpdated_HeadFails
    \/ fetchWithCache_GetOk
    \/ fetchWithCache_GetOk_NotSaved
    \/ fetchWithCache_GetOk_PutRejected
    \/ fetchWithCache_GetFails
    \/ CacheService_clearCache

SpecCache == InitCache /\ [][NextCache]_vars

\* ================================================ URL state of the frontend
\* parseUrlState, stateToUrlParams, updateUrl (src/frontend/src/types/
\* plugin.ts), the hook useUrlState and the page App with its Pagination.
notUrl == <<finderVars, crawlVars, indexVars, cacheVars>>

\* One parameter, or none.
Param(cond, name, value) == IF cond THEN name :> value ELSE EmptyParams

\* stateToUrlParams(state): only what differs from the defaults is written.
stateToUrlParams(urlState, defaults) ==
    LET opts == urlState.searchOptions
    IN Param(urlState.search # "" /\ trim(urlState.search) # "",
             "search", trim(urlState.search))
       @@ Param(urlState.view # "grid", "view", urlState.view)
       @@ Param(urlState.sort # "updated_desc", "sort", urlState.sort)
       @@ Param(urlState.page # 0 /\ urlState.page # 1,
                "page", toString(urlState.page))
       @@ Param(urlState.pageSize # 0 /\ urlState.pageSize # DefaultPageSize,
                "pageSize", toString(urlState.pageSize))
       @@ Param(opts.fields # defaults.fields, "fields", join(opts.fields))
       @@ Param(opts.matchMode # defaults.matchMode,
                "matchMode", opts.matchMode)
       @@ Param(opts.logic # defaults.logic, "logic", opts.logic)
       @@ Param(opts.caseSensitive # defaults.caseSensitive,
                "caseSensitive", boolToString(opts.caseSensitive))

\* fields.split(',').filter(f => [...valid fields].includes(f))
FilterValidFields(array) ==
    SelectSeq(array, LAMBDA f : \E n \in 1..Len(ValidFields) : ValidFields[n] = f)

\* parseUrlState(searchParams): the fields the parameters give, each only
\* when its value is accepted.
parseUrlState(params, defaults) ==
    LET fieldArray == IF Has(params, "fields")
                      THEN FilterValidFields(split(params["fields"]))
                      ELSE <<>>
        searchOptions ==
            Param(/\ Has(params, "fields")
                  /\ params["fields"].parts # <<>>
                  /\ Len(fieldArray) > 0,
                  "fields", fieldArray)
            @@ Param(Has(params, "matchMode")
                        /\ params["matchMode"] \in ValidMatchModes,
                     "matchMode", params["matchMode"])
            @@ Param(Has(params, "logic") /\ params["logic"] \in ValidLogics,
                     "logic", params["logic"])
            @@ Param(Has(params, "caseSensitive"),
                     "caseSensitive", params["caseSensitive"] = "true")
    IN Param(Has(params, "search") /\ params["search"] # "",
             "search", params["search"])
       @@ Param(Has(params, "view") /\ params["view"] \in ValidViews,
                "view", params["view"])
       @@ Param(Has(params, "sort") /\ params["sort"] \in ValidSorts,
                "sort", params["sort"])
       @@ Param(Has(params, "page") /\ parseInt(params["page"]) > 0,
                "page", parseInt(params["page"]))
       @@ Param(Has(params, "pageSize")
                   /\ parseInt(params["pageSize"]) \in ValidPageSizes,
                "pageSize", parseInt(params["pageSize"]))
       @@ Param(DOMAIN searchOptions # {},
                "searchOptions",
                [key \in DOMAIN defaults |->
                    IF key \in DOMAIN searchOptions
                    THEN searchOptions[key] ELSE defaults[key]])

\* handlePopState: every field of the hook from the URL, or its default.
handlePopState(urlState, defaults) ==
    [searchQuery |-> IF Has(urlState, "search") THEN urlState["search"]
                     ELSE "",
     viewMode |-> IF Has(urlState, "view") THEN urlState["view"] ELSE "grid",
     sortBy |-> IF Has(urlState, "sort") THEN urlState["sort"]
                ELSE "updated_desc",
     currentPage |-> IF Has(urlState, "page") THEN urlState["page"] ELSE 1,
     pageSize |-> IF Has(urlState, "pageSize") THEN urlState["pageSize"]
                  ELSE DefaultPageSize,
     searchOptions |-> IF Has(urlState, "searchOptions")
                       THEN urlState["searchOptions"] ELSE defaults]

\* The mount effect: only the fields the URL gives are set.
mountEffect(h, urlState) ==
    [searchQuery |-> IF Has(urlState, "search") THEN urlState["search"]
                     ELSE h.searchQuery,
     viewMode |-> IF Has(urlState, "view") THEN urlState["view"]
                  ELSE h.viewMode,
     sortBy |-> IF Has(urlState, "sort") THEN urlState["sort"] ELSE h.sortBy,
     currentPage |-> IF Has(urlState, "page") THEN urlState["page"]
                     ELSE h.currentPage,
     pageSize |-> IF Has(urlState, "pageSize") THEN urlState["pageSize"]
                  ELSE h.pageSize,
     searchOptions |-> IF Has(urlState, "searchOptions")
                       THEN urlState["searchOptions"] ELSE h.searchOptions]

\* updateUrlState: the UrlState of the hook's state.
currentState(h) ==
    [search |-> h.searchQuery, view |-> h.viewMode, sort |-> h.sortBy,
     page |-> h.currentPage, pageSize |-> h.pageSize,
     searchOptions |-> h.searchOptions]

\* updateUrl that pushes an entry whatever replace says.
updateUrl_AlwaysPush(b, urlState, replace, defaults) ==
    LET url == stateToUrlParams(urlState, defaults)
    IN [history |-> Append(SubSeq(b.history, 1, b.pos), url),
        pos |-> b.pos + 1, op |-> "pushState"]

\* updateUrl(state, replace): history.replaceState or history.pushState with
\* the URL of the state; a push drops the entries after the current one.
updateUrl(b, urlState, replace, defaults) ==
    LET url == stateToUrlParams(urlState, defaults)
    IN IF replace
       THEN [history |-> [b.history EXCEPT ![b.pos] = url],
             pos |-> b.pos, op |-> "replaceState"]
       ELSE [history |-> Append(SubSeq(b.history, 1, b.pos), url),
             pos |-> b.pos + 1, op |-> "pushState"]

\* The index holds NumPlugins plugins; about half of them match the query
\* "kits" and one of them passes a field filter.
ResultCount(query, filters) ==
    IF filters # {} THEN 1
    ELSE IF trim(query) = "" THEN NumPlugins
    ELSE (NumPlugins + 1) \div 2

\* App: Math.max(1, Math.ceil(count / pageSize))
totalPages(count, size) == Max(1, (count + size - 1) \div size)

\* The grouped view pages the groups (plugins of one name), about two
\* plugins to a group.
TotalGroups(count) == (count + 1) \div 2

TotalPagesNow ==
    LET count == ResultCount(hook.searchQuery, app.activeFilters)
    IN IF hook.viewMode = "grouped"
       THEN totalPages(TotalGroups(count), hook.pageSize)
       ELSE totalPages(count, hook.pageSize)

\* What the setters are called with on the browsing page.
BrowseQueries == {"", "kits"}
BrowseSorts == {"updated_desc", "created_asc"}
BrowsePageSizes == {12, DefaultPageSize}
BrowseOptions == {DefaultCandidates[1], DefaultCandidates[2]}
FieldFilters == {"repo_owner"}

\* The URLs the page is opened with: none of the parameters, a page, a page
\* and a query, parameters that parseUrlState does not accept.
InitialUrls ==
    {EmptyParams,
     "page" :> toString(2),
     ("page" :> toString(MaxPage)) @@ ("search" :> "kits")
        @@ ("pageSize" :> toString(12)),
     ("page" :> NotDigits) @@ ("view" :> "list")}

Counted(last) == [app EXCEPT !.ops = @ + 1, !.last = last]

\* The mount effect: the fields the URL gives are set.
useUrlState_Mount ==
    /\ app.phase = "opened"
    /\ hook' = mountEffect(
                   hook,
                   parseUrlState(browser.history[browser.pos], app.defaults))
    /\ app' = [app EXCEPT !.phase = "mounted", !.last = "mount"]
    /\ UNCHANGED <<notUrl, browser>>

setSearchQuery ==
    /\ app.phase = "mounted" /\ app.ops < MaxOps
    /\ \E value \in BrowseQueries :
          /\ hook' = [hook EXCEPT !.searchQuery = value, !.currentPage = 1]
          /\ browser' = updateUrl(browser,
                                  [currentState(hook) EXCEPT
                                       !.search = value, !.page = 1],
                                  TRUE, app.defaults)
    /\ app' = Counted("setSearchQuery")
    /\ UNCHANGED notUrl

setViewMode ==
    /\ app.phase = "mounted" /\ app.ops < MaxOps
    /\ \E value \in ValidViews :
          /\ hook' = [hook EXCEPT !.viewMode = value, !.currentPage = 1]
          /\ browser' = updateUrl(browser,
                                  [currentState(hook) EXCEPT
                                       !.view = value, !.page = 1],
                                  TRUE, app.defaults)
    /\ app' = Counted("setViewMode")
    /\ UNCHANGED notUrl

setSortBy ==
    /\ app.phase = "mounted" /\ app.ops < MaxOps
    /\ \E value \in BrowseSorts :
          /\ hook' = [hook EXCEPT !.sortBy = value, !.currentPage = 1]
          /\ browser' = updateUrl(browser,
                                  [currentState(hook) EXCEPT
                                       !.sort = value, !.page = 1],
                                  TRUE, app.defaults)
    /\ app' = Counted("setSortBy")
    /\ UNCHANGED notUrl

setPageSize ==
    /\ app.phase = "mounted" /\ app.ops < MaxOps
    /\ \E value \in BrowsePageSizes :
          /\ hook' = [hook EXCEPT !.pageSize = value, !.currentPage = 1]
          /\ browser' = updateUrl(browser,
                                  [currentState(hook) EXCEPT
                                       !.pageSize = value, !.page = 1],
                                  TRUE, app.defaults)
    /\ app' = Counted("setPageSize")
    /\ UNCHANGED notUrl

setSearchOptions ==
    /\ app.phase = "mounted" /\ app.ops < MaxOps
    /\ \E value \in BrowseOptions :
          /\ hook' = [hook EXCEPT !.searchOptions = value, !.currentPage = 1]
          /\ browser' = updateUrl(browser,
                                  [currentState(hook) EXCEPT
                                       !.searchOptions = value, !.page = 1],
                                  TRUE, app.defaults)
    /\ app' = Counted("setSearchOptions")
    /\ UNCHANGED notUrl

\* Pagination.goToPage(page): shown only with more than one page; the page
\* is clamped, and setCurrentPage is called when it differs.
Pagination_goToPage ==
    /\ app.phase = "mounted" /\ app.ops < MaxOps
    /\ TotalPagesNow > 1
    /\ \E target \in 0..(MaxPage + 1) :
          LET clamped == Max(1, Min(TotalPagesNow, target))
          IN /\ clamped # hook.currentPage
             /\ hook' = [hook EXCEPT !.currentPage = clamped]
             /\ browser' = updateUrl(browser,
                                     [currentState(hook) EXCEPT
                                          !.page = clamped],
                                     FALSE, app.defaults)
    /\ app' = Counted("setCurrentPage")
    /\ UNCHANGED notUrl

\* A field filter is added: setActiveFilters; the hook is not told.
App_addFilter ==
    /\ app.phase = "mounted" /\ app.ops < MaxOps
    /\ \E f \in FieldFilters \ app.activeFilters :
          app' = [Counted("addFilter") EXCEPT !.activeFilters = @ \cup {f}]
    /\ UNCHANGED <<notUrl, hook, browser>>

App_removeFilter ==
    /\ app.phase = "mounted" /\ app.ops < MaxOps
    /\ \E f \in app.activeFilters :
          app' = [Counted("removeFilter") EXCEPT !.activeFilters = @ \ {f}]
    /\ UNCHANGED <<notUrl, hook, browser>>

\* The browser goes back one entry and fires popstate.
Browser_Back ==
    /\ app.phase = "mounted" /\ app.ops < MaxOps
    /\ browser.pos > 1
    /\ browser' = [browser EXCEPT !.pos = @ - 1, !.op = "popstate"]
    /\ hook' = handlePopState(
                   parseUrlState(browser.history[browser.pos - 1],
                                 app.defaults),
                   app.defaults)
    /\ app' = Counted("popstate")
    /\ UNCHANGED notUrl

\* The browser goes forward one entry and fires popstate.
Browser_Forward ==
    /\ app.phase = "mounted" /\ app.ops < MaxOps
    /\ browser.pos < Len(browser.history)
    /\ browser' = [browser EXCEPT !.pos = @ + 1, !.op = "popstate"]
    /\ hook' = handlePopState(
                   parseUrlState(browser.history[browser.pos + 1],
                                 app.defaults),
                   app.defaults)
    /\ app' = Counted("popstate")
    /\ UNCHANGED notUrl

\* The page is opened with one of the URLs.
InitBrowse ==
    /\ ServicesDown
    /\ CacheEmpty
    /\ stateFile = Absent
    /\ oxideItems = OxideItems
    /\ crawledItems = CrawledItems
    /\ \E n \in 1..Len(DefaultCandidates), url \in InitialUrls :
          /\ hook = InitialHook(DefaultCandidates[n])
          /\ browser = [history |-> <<url>>, pos |-> 1, op |-> ""]
          /\ app = [phase |-> "opened", activeFilters |-> {}, ops |-> 0,
                    last |-> "", defaults |-> DefaultCandidates[n]]

NextBrowse ==
    \/ useUrlState_Mount
    \/ setSearchQuery
    \/ setViewMode
    \/ setSortBy
    \/ setPageSize
    \/ setSearchOptions
    \/ Pagination_goToPage
    \/ App_addFilter
    \/ App_removeFilter
    \/ Browser_Back
    \/ Browser_Forward

SpecBrowse == InitBrowse /\ [][NextBrowse]_vars

\* Every state of the hook with valid field values.
UiStates ==
    [searchQuery : Queries, viewMode : ValidViews, sortBy : ValidSorts,
     currentPage : 1..MaxPage, pageSize : ValidPageSizes,
     searchOptions : SearchOptions]

\* updateUrl(state, true) with the state of the hook as it is.
Url_Write ==
    /\ app.phase = "mounted" /\ app.last = ""
    /\ browser' = updateUrl(browser, currentState(hook), TRUE, app.defaults)
    /\ app' = Counted("updateUrl")
    /\ UNCHANGED <<notUrl, hook>>

\* The entry is visited again: popstate, the hook is set from the URL.
Url_Read ==
    /\ app.phase = "mounted" /\ app.last = "updateUrl"
    /\ browser' = [browser EXCEPT !.op = "popstate"]
    /\ hook' = handlePopState(
                   parseUrlState(browser.history[browser.pos], app.defaults),
                   app.defaults)
    /\ app' = Counted("popstate")
    /\ UNCHANGED notUrl

\* The hook is in any of its states.
InitUrl ==
    /\ ServicesDown
    /\ CacheEmpty
    /\ stateFile = Absent
    /\ oxideItems = OxideItems
    /\ crawledItems = CrawledItems
    /\ hook \in UiStates
    /\ browser = [history |-> <<EmptyParams>>, pos |-> 1, op |-> ""]
    /\ \E n \in 1..Len(DefaultCandidates) :
          app = [phase |-> "mounted", activeFilters |-> {}, ops |-> 0,
                 last |-> "", defaults |-> DefaultCandidates[n]]

NextUrl == Url_Write \/ Url_Read

SpecUrl == InitUrl /\ [][NextUrl]_vars

\* ================================================================ claims
NoTokenLine == "Please set GITHUB_TOKEN environment variable"

\* The entry of the author at 1-based position j of the list.
EntryAt(j) == state.processed_authors[authors[j]]

\* C1 (as stated): whenever cloneAndSearchRepository has returned, on any
\* exit path, the scratch directory it created no longer exists.
C1_ScratchGoneOnEveryExit ==
    pc = "returned" => tempDir \notin scratchDirs

\* C1 (amended): whenever cloneAndSearchRepository has returned, on any exit
\* path, the scratch directory it created no longer exists, unless the
\* removal itself failed and was reported by the cleanup warning.
C1_ScratchGoneUnlessRemovalFails ==
    pc = "returned" /\ tempDir \in scratchDirs => log = "Failed to cleanup"

\* A clone that timed out has returned and its scratch directory is gone.
C1_Witness ==
    /\ pc = "returned"
    /\ log = "Timeout cloning, skipping"
    /\ tempDir # 0
    /\ tempDir \notin scratchDirs

\* C2: a pass resumed after a kill never lists an author that the killed
\* pass had already moved past, and every author before the position it
\* starts at has been processed.
C2_ResumeFromCheckpoint ==
    crashSnap.phase = "resumed" /\ now = crashSnap.at =>
        /\ pc = "fetch" => i >= crashSnap.index
        /\ \A j \in 1..NumAuthors :
               j <= startIndex => authors[j] \in DOMAIN state.processed_authors

\* C3: once the loop has moved past an author that it processed, failed on or
\* skipped for too many repositories, the state file holds that author's
\* entry as it is in memory.
C3_EntryPersistedBeforeNextAuthor ==
    \A j \in 1..NumAuthors :
        (/\ j <= i
         /\ outcome[j] \in {"tooMany", "completed", "failed"}
         /\ stateFile.kind # "corrupt")
        => /\ stateFile.kind = "valid"
           /\ authors[j] \in DOMAIN stateFile.data.processed_authors
           /\ stateFile.data.processed_authors[authors[j]] = EntryAt(j)

\* C4: a process that ends in the middle of a write leaves the file written
\* complete, with its previous or its new content, never partial.
C4_AtomicReplace ==
    [][pc' = "down" =>
          /\ pc = "saving" => stateFile'.kind # "corrupt"
          /\ pc = "savingOut" => outputFile'.kind # "corrupt"]_vars

\* C5: a constructed crawler whose state file is absent or does not parse
\* holds a freshly initialized state, and the only exit with status 1 is the
\* one for a missing token: loading the state never ends the run.
C5_LoadStateNeverFails ==
    /\ (pc = "constructed" /\ stateFile.kind \in {"absent", "corrupt"})
       => /\ state.current_author_index = 0
          /\ state.processed_authors = <<>>
          /\ state.discovered_repositories = <<>>
    /\ exitCode = 1 => log = NoTokenLine

\* The crawler was killed while writing the state file and has started again
\* on the partial file with an empty state.
C5_Witness ==
    /\ pc = "constructed"
    /\ crashSnap.phase = "crashed"
    /\ stateFile.kind = "corrupt"
    /\ outputFile.kind = "valid"
    /\ state.processed_authors = <<>>
    /\ log = "Failed to load state, creating new one"

\* C6: at the top of the loop, an author with an entry less than 7 days old,
\* successful or not, is passed over with no listing call, no clone and no
\* change of the entry or of the files; an author with an older entry or
\* with none goes on to the listing call.
C6_FreshnessGate ==
    [][pc = "loop" /\ i < Len(authors) =>
          LET a == authorAt(i)
              fresh == /\ a \in DOMAIN state.processed_authors
                       /\ now - state.processed_authors[a].last_processed < 7
          IN IF fresh
             THEN /\ pc' = "loop"
                  /\ i' = i + 1
                  /\ state'.processed_authors = state.processed_authors
                  /\ state'.discovered_repositories
                         = state.discovered_repositories
                  /\ UNCHANGED files
             ELSE /\ pc' = "fetch"
                  /\ i' = i]_vars

\* An author whose processing failed three days ago has just been skipped.
C6_Witness ==
    /\ pc = "loop"
    /\ i >= 1
    /\ outcome[i] = "recent"
    /\ log = "Skipping - processed days ago"
    /\ ~EntryAt(i).success
    /\ now - EntryAt(i).last_processed = 3

\* C7: after the listing, an author with more than 100 repositories gets an
\* entry with the skip reason and the loop moves on without a clone; an
\* author with 100 repositories or fewer enters the repository loop.
C7_RepositoryCountGuard ==
    [][pc = "guard" =>
          IF userRepos > 100
          THEN /\ pc' = "loop"
               /\ i' = i + 1
               /\ scratchDirs' = scratchDirs
               /\ LET e == state'.processed_authors[authorAt(i)]
                  IN /\ e.success
                     /\ e.repositories_found = 0
                     /\ "error" \in DOMAIN e
                     /\ e.error = <<"Skipped - too many repositories",
                                    userRepos>>
          ELSE /\ pc' \in {"repo", "record"}
               /\ i' = i
               /\ k' = 1
               /\ state' = state]_vars

\* An author with 101 repositories has just been skipped, nothing cloned.
C7_Witness ==
    /\ pc = "loop"
    /\ i >= 1
    /\ outcome[i] = "tooMany"
    /\ log = "Skipping - too many repositories"
    /\ scratchDirs = {}
    /\ EntryAt(i).error = <<"Skipped - too many repositories", 101>>

\* C8: after a repository of the author has failed, control never reaches
\* the author's catch, and when the author is saved every repository of the
\* listing has been attempted and the entry says success.
C8_RepositoryFailureContained ==
    /\ repoFailed => pc # "catch"
    /\ (repoFailed /\ pc = "save" /\ i < Len(authors))
       => /\ k = userRepos + 1
          /\ outcome[i + 1] = "completed"
          /\ EntryAt(i + 1).success

\* An author with two repositories, one of which failed, is recorded.
C8_Witness ==
    /\ pc = "save"
    /\ i < Len(authors)
    /\ repoFailed
    /\ userRepos = 2
    /\ k = 3
    /\ outcome[i + 1] = "completed"
    /\ EntryAt(i + 1).success

\* C9: a 401 from the listing is never handled as a failure of one author:
\* the pass does not go on to save, and no entry carries the 401.
C9_AuthFailureAborts ==
    /\ err = <<"HTTP", 401>>
       => pc \notin {"save", "saving", "saveOut", "savingOut", "delay", "loop"}
    /\ \A a \in DOMAIN state.processed_authors :
           "error" \in DOMAIN state.processed_authors[a]
           => state.processed_authors[a].error # <<"HTTP", 401>>

\* C10: an author whose listing threw has an entry with success false and
\* an error, the error never ends the process, and a pass that ends has
\* visited every position from the one it started at.
C10_AuthorFailureContained ==
    /\ \A j \in 1..NumAuthors :
           outcome[j] = "failed"
           => /\ authors[j] \in DOMAIN state.processed_authors
              /\ ~EntryAt(j).success
              /\ "error" \in DOMAIN EntryAt(j)
    /\ pc = "done" =>
           \A j \in 1..NumAuthors : j > startIndex => outcome[j] # ""
    /\ exitCode = 1 => log = NoTokenLine

\* The listing of an author failed with a 403 and the next author of the
\* same pass is being listed.
C10_Witness ==
    /\ pc = "fetch"
    /\ i >= 1
    /\ outcome[i] = "failed"
    /\ EntryAt(i).error = <<"HTTP", 403>>

\* An error the claims call retryable: the host limits the rate (403, 429)
\* or the connection fails.
RetryableError(e) ==
    \/ e = <<"fetch failed", 0>>
    \/ e[1] = "HTTP" /\ e[2] \in {403, 429}

\* C11: an author whose listing was given up after a retryable failure is
\* abandoned for that cycle only: when a later cycle reaches the author, the
\* listing is attempted again.
C11_RetryableRetriedNextCycle ==
    [][(/\ pc = "loop"
        /\ i < Len(authors)
        /\ authorAt(i) \in DOMAIN state.processed_authors
        /\ ~state.processed_authors[authorAt(i)].success
        /\ RetryableError(state.processed_authors[authorAt(i)].error))
       => pc' = "fetch"]_vars

\* C12: in continuous mode an error that leaves a pass is followed by a wait
\* shorter than the wait between cycles and then by another pass, and the
\* process never ends; in single-cycle mode a pass starts only right after
\* construction and its return ends the process with status 0.
C12_RunModes ==
    [][/\ (continuous /\ pc = "escaped")
          => (pc' = "waiting" /\ delayMin' > 0 /\ delayMin' < 60)
       /\ (continuous /\ pc = "waiting") => (pc' = "loop" /\ i' = startIndex')
       /\ continuous => (pc' # "down" /\ exitCode' = 0 /\ continuous')
       /\ pc = "waiting" => continuous
       /\ (~continuous /\ pc = "done") => (pc' = "down" /\ exitCode' = 0)]_vars

\* In continuous mode a write of the state file has failed half-way and the
\* loop is in its 5-minute wait.
C12_Witness ==
    /\ continuous
    /\ pc = "waiting"
    /\ delayMin = 5
    /\ log = "Error in main loop"
    /\ stateFile.kind = "corrupt"
    /\ exitCode = 0

\* C13: when processAuthors has computed its list, the list holds every
\* owner_login of the items of both index files and nothing else, no login
\* twice, in the order of the logins' first occurrence in the files (so the
\* same content always gives the same order), and the loop starts at the
\* current_author_index of the state that was loaded.
C13_AuthorList ==
    (pc = "loop" /\ log = "Found unique authors to process") =>
        LET all == ItemsOf(oxideItems) \o ItemsOf(crawledItems)
            First(a) == CHOOSE p \in 1..Len(all) :
                            all[p] = a /\ \A q \in 1..(p - 1) : all[q] # a
        IN /\ \A p, q \in 1..Len(authors) : p # q => authors[p] # authors[q]
           /\ {authors[p] : p \in 1..Len(authors)}
                  = {all[q] : q \in 1..Len(all)} \ {""}
           /\ \A p, q \in 1..Len(authors) :
                  p < q => First(authors[p]) < First(authors[q])
           /\ i = startIndex
           /\ startIndex = IF stateFile.kind = "valid"
                           THEN stateFile.data.current_author_index
                           ELSE 0

\* Two index files of two items each, with a login in both and an item
\* without login, gave a list of two authors, and the pass starts at the
\* second position, as the state file says.
C13_Witness ==
    /\ pc = "loop"
    /\ log = "Found unique authors to process"
    /\ Len(ItemsOf(oxideItems)) = 2
    /\ Len(ItemsOf(crawledItems)) = 2
    /\ authors = <<AuthorPool[2], AuthorPool[1]>>
    /\ startIndex = 1

\* C14 (as stated): at every moment at most one scratch directory exists,
\* the clone in progress works in it, and an author is completed only when
\* every repository of the listing has been handled.
C14_OneScratchDirectory ==
    /\ Cardinality(scratchDirs) <= 1
    /\ pc \in {"clone", "grep", "cleanup"} => tempDir \in scratchDirs
    /\ pc = "record" => k = userRepos + 1

\* C14 (amended): a scratch directory is created only between two clones,
\* when the directory of the previous clone has been through its removal, so
\* at most one is in use, by the one clone in progress; an author is
\* completed only when every repository of the listing has been handled, a
\* listing starts only at the top of the author loop, and the loop does not
\* move to another author while a repository is being handled.
C14_OneCloneAtATime ==
    [][/\ scratchDirs' \ scratchDirs # {}
          => /\ pc = "repo"
             /\ tempDir = 0
             /\ tempDir' \notin scratchDirs
             /\ scratchDirs' = scratchDirs \cup {tempDir'}
       /\ pc' \in {"clone", "grep", "cleanup"} => tempDir' \in scratchDirs'
       /\ pc' = "record" => k' = userRepos' + 1
       /\ pc' = "fetch" => pc \in {"loop", "fetch"}
       /\ pc \in {"repo", "clone", "grep", "cleanup", "returned"}
          => (pc' = "down" \/ i' = i)]_vars

\* A clone is in progress in its own scratch directory while the directory
\* of an earlier clone, whose removal failed, still exists.
C14_Witness ==
    /\ pc = "clone"
    /\ tempDir \in scratchDirs
    /\ Cardinality(scratchDirs) = 2
    /\ crashSnap.kills = 0

\* The shards of a fork mode whose size range holds a size.
Covering(q, mode, size) ==
    {j \in 1..Len(q) : /\ q[j].forkMode = mode
                       /\ q[j].sizeRangeMin <= size
                       /\ size <= q[j].sizeRangeMax}

\* C15: once the queue is initialized, for each fork mode every size of
\* [0, MAX_SIZE] lies in the range of exactly one shard of the queue, pending
\* or done, and no shard reaches outside [0, MAX_SIZE].
C15_ShardsPartitionSizes ==
    crawlPc # "start" =>
        /\ \A mode \in {"excluded", "only"} : \A size \in 0..MAX_SIZE :
               Cardinality(Covering(queue, mode, size)) = 1
        /\ \A j \in 1..Len(queue) :
               /\ 0 <= queue[j].sizeRangeMin
               /\ queue[j].sizeRangeMin <= queue[j].sizeRangeMax
               /\ queue[j].sizeRangeMax <= MAX_SIZE
               /\ queue[j].status \in {"pending", "done"}

\* A base shard was split and a shard is done.
C15_Witness ==
    /\ Len(queue) > 2 * NumBaseRanges
    /\ \E j \in 1..Len(queue) : queue[j].status = "done"
    /\ \E j \in 1..Len(queue) : queue[j].status = "pending"

\* recordResult took shard s out of queue q and enqueued its two halves.
ReplacedByHalves(q, q2, j) ==
    LET s == q[j]
        n == Len(q)
    IN /\ Len(q2) = n + 1
       /\ \A j2 \in 1..(n + 1) : ShardKey(q2[j2]) # ShardKey(s)
       /\ SubSeq(q2, 1, n - 1) = RemoveAt(q, j)
       /\ q2[n].status = "pending"
       /\ q2[n + 1].status = "pending"
       /\ q2[n].forkMode = s.forkMode
       /\ q2[n + 1].forkMode = s.forkMode
       /\ q2[n].sizeRangeMin = s.sizeRangeMin
       /\ q2[n].sizeRangeMin <= q2[n].sizeRangeMax
       /\ q2[n].sizeRangeMax + 1 = q2[n + 1].sizeRangeMin
       /\ q2[n + 1].sizeRangeMin <= q2[n + 1].sizeRangeMax
       /\ q2[n + 1].sizeRangeMax = s.sizeRangeMax

\* recordResult marked the shard done and did nothing else.
MarkedDone(q, q2, j) ==
    /\ Len(q2) = Len(q)
    /\ q2[j].status = "done"
    /\ ShardKey(q2[j]) = ShardKey(q[j])
    /\ \A j2 \in 1..Len(q) : j2 # j => q2[j2] = q[j2]

C17_NarrowShardFlagged ==
    [][/\ (crawlPc = "result" /\ totalCount >= 1000
              /\ Width(queue[cur]) <= 1)
          => /\ Len(queue') = Len(queue)
             /\ ShardKey(queue'[cur]) = ShardKey(queue[cur])
             /\ queue'[cur].overflow
             /\ crawlLog' = "overflow partition"
       /\ \A j \in 1..Len(queue) :
              queue[j].overflow
              => \E j2 \in 1..Len(queue') : queue'[j2] = queue[j]
       /\ \A j \in 1..Len(queue') :
              /\ queue'[j].sizeRangeMin <= queue'[j].sizeRangeMax
              /\ \A j2 \in 1..Len(queue') :
                     (j2 # j /\ queue'[j2].forkMode = queue'[j].forkMode)
                     => \/ queue'[j2].sizeRangeMax < queue'[j].sizeRangeMin
                        \/ queue'[j].sizeRangeMax < queue'[j2].sizeRangeMin
      ]_vars

\* A shard of a single size that came out of a split reported 1000 results or
\* more and is in the queue, flagged.
C17_Witness ==
    /\ crawlLog = "overflow partition"
    /\ totalCount >= 1000
    /\ cur # 0
    /\ queue[cur].overflow
    /\ Width(queue[cur]) = 0
    /\ Len(queue) > 2 * NumBaseRanges

\* C19: when the query of a shard is still rate limited after the last
\* retry, the queue is left as it is, with the shard pending, and the run
\* goes on: the next shard taken up is a pending one that was not given up in
\* this cycle, if there is one.  Until then every rate-limited answer is
\* followed by a longer backoff and one more attempt.
C19_RetryableFailureKeepsPending ==
    [][/\ (crawlPc = "query" /\ attempts = MaxRetries /\ crawlPc' = "next")
          => /\ queue' = queue
             /\ queue[cur].status = "pending"
             /\ ~queue[cur].overflow
             /\ ShardKey(queue[cur]) \in abandoned'
       /\ (crawlPc = "query" /\ attempts' # attempts)
          => /\ attempts < MaxRetries
             /\ attempts' = attempts + 1
             /\ backoff' > backoff
             /\ backoff' = IF backoff = 0 THEN BaseBackoff ELSE 2 * backoff
             /\ queue' = queue
             /\ crawlPc' = "query"
       /\ crawlPc = "next"
          => LET P == {j \in 1..Len(queue) :
                          /\ queue[j].status = "pending"
                          /\ ShardKey(queue[j]) \notin abandoned}
             IN IF P = {} THEN crawlPc' = "cycleEnd"
                ELSE crawlPc' = "query" /\ cur' \in P]_vars

\* After a shard was given up as rate limited, the next pending shard is
\* being queried.
C19_Witness ==
    /\ crawlPc = "query"
    /\ crawlLog = "retryable failure"
    /\ abandoned # {}
    /\ queue[cur].status = "pending"
    /\ ShardKey(queue[cur]) \notin abandoned
    /\ \E j \in 1..Len(queue) : ShardKey(queue[j]) \in abandoned
                                /\ queue[j].status = "pending"

UniqueKeys(idx) ==
    \A p, q \in 1..Len(idx) : p # q => KeyOf(idx[p]) # KeyOf(idx[q])

IsPrefix(a, b) == Len(a) <= Len(b) /\ SubSeq(b, 1, Len(a)) = a

\* C18: the index and the artifact never hold two items with the same key;
\* a merge keeps every item of the index as it is and adds after them only
\* items whose key was not there, so a merge of items whose keys are all
\* present changes nothing; the artifact only grows from run to run.
C18_IndexKeysUnique ==
    [][/\ UniqueKeys(index')
       /\ UniqueKeys(artifact')
       /\ IsPrefix(artifact, artifact')
       /\ indexOp' = "merge"
          => /\ IsPrefix(index, index')
             /\ (\A n \in 1..Len(batch') : HasKey(index, KeyOf(batch'[n])))
                => index' = index
             /\ \A n \in 1..Len(batch') : HasKey(index', KeyOf(batch'[n]))
      ]_vars

\* A later run has merged a batch that names one file twice, indexed at
\* another time than the item the artifact holds for it: nothing was added.
C18_Witness ==
    /\ indexOp = "merge"
    /\ Len(batch) = 2
    /\ KeyOf(batch[1]) = KeyOf(batch[2])
    /\ batch[1] \in IndexItems
    /\ Len(artifact) = 2
    /\ index = artifact
    /\ index[1].indexed_at # batch[1].indexed_at

\* C20: a call that found a record of the current cache version and whose
\* HEAD request was answered OK with the ETag and the Last-Modified of the
\* record's metadata has returned the record's data without sending a GET.
C20_UnchangedFileNotDownloaded ==
    (/\ fpc \notin {"idle", "lookup", "head"}
     /\ cached.kind = "entry"
     /\ cached.metadata.version = 1
     /\ head.ok
     /\ head.etag = cached.metadata.etag
     /\ head.lastModified = cached.metadata.lastModified)
    => /\ fpc = "returned"
       /\ gets = 0
       /\ result = [kind |-> "data", data |-> cached.data]

\* A second call found the record of the first, the server answered the
\* HEAD with the same two validators, and the call returned the cached data.
C20_Witness ==
    /\ fpc = "returned"
    /\ cached.kind = "entry"
    /\ cached.metadata.version = 1
    /\ head.ok
    /\ head.etag # 0
    /\ head.etag = cached.metadata.etag
    /\ head.lastModified # <<"", 0>>
    /\ head.lastModified = cached.metadata.lastModified
    /\ gets = 0
    /\ result = [kind |-> "data", data |-> cached.data]

RECURSIVE PagesLength(_, _)
PagesLength(n, p) ==
    IF p = 0 THEN 0 ELSE PagesLength(n, p - 1) + PageLength(n, p)

C23_GetFailureFallsBack ==
    [][fpc = "get" /\ response'.kind = "failed" =>
          /\ cacheDb' = cacheDb
          /\ IF cached.kind = "entry"
             THEN /\ fpc' = "returned"
                  /\ result' = [kind |-> "data", data |-> cached.data]
             ELSE /\ fpc' = "threw"
                  /\ result' = [kind |-> "error"]
      ]_vars

\* The file changed on the server, the GET failed and the call returned the
\* older cached data.
C23_Witness ==
    /\ fpc = "returned"
    /\ response.kind = "failed"
    /\ cached.kind = "entry"
    /\ cacheDb = cached
    /\ result = [kind |-> "data", data |-> cached.data]
    /\ srvFile.content # cached.data

\* C29: a call that found an entry whose data differs from the file on the
\* server, whose HEAD request was answered OK and whose GET did not fail,
\* returns the server's content and leaves it in the store.
C29_NeverStale ==
    [][/\ fpc # "returned"
       /\ fpc' = "returned"
       /\ cached'.kind = "entry"
       /\ cached'.data # srvFile.content
       /\ head'.ok
       /\ response'.kind # "failed"
       => /\ result' = [kind |-> "data", data |-> srvFile.content]
          /\ cacheDb'.kind = "entry"
          /\ cacheDb'.data = srvFile.content
      ]_vars

NoDuplicates(seq) ==
    \A p, q \in 1..Len(seq) : p # q => seq[p] # seq[q]

\* C25: pass after pass, discovered_repositories holds no repository twice,
\* every step keeps the repositories it held and adds only behind them, and
\* the count of the output file is the number of repositories it lists.
C25_DiscoveredOnlyGrows ==
    [][/\ NoDuplicates(state'.discovered_repositories)
       /\ IsPrefix(state.discovered_repositories,
                   state'.discovered_repositories)
       /\ outputFile'.kind = "valid" =>
             outputFile'.data.count = Len(outputFile'.data.repositories)
      ]_vars

\* In a later pass, a week after the first, the marker was found again in a
\* repository the first pass had discovered; it is still listed once.
C25_Witness ==
    /\ now >= FreshDays
    /\ pc = "record"
    /\ foundPluginRepos >= 1
    /\ authorAt(i) \in DOMAIN state.processed_authors
    /\ state.processed_authors[authorAt(i)].repositories_found
           = foundPluginRepos
    /\ outputFile.kind = "valid"
    /\ Len(state.discovered_repositories) = foundPluginRepos
    /\ outputFile.data.count = Len(state.discovered_repositories)

\* An author of the list that is due: no entry, or one at least 7 days old.
Due(j) ==
    \/ authors[j] \notin DOMAIN state.processed_authors
    \/ now - state.processed_authors[authors[j]].last_processed >= 7

\* C26 as stated: a pass ends, and at its end no author of the list is due.
\* (The clock stands still during a pass and a pass sets last_processed to
\* the clock, so an author that was due at the start and is not due at the
\* end got the entry in this pass.)
C26_EveryDueAuthorProcessed ==
    /\ (pc = "loop") ~> (pc = "done")
    /\ [](pc = "done" => \A j \in 1..Len(authors) : ~Due(j))

\* C26: a pass ends, and at its end no author at or after the position the
\* pass started at is due.
C26_DueAuthorsFromStartProcessed ==
    /\ (pc = "loop") ~> (pc = "done")
    /\ [](pc = "done" =>
             \A j \in 1..Len(authors) : j > startIndex => ~Due(j))

\* A pass that resumed at the second author a week after the kill has
\* ended: the second author was listed again, the first is still due.
C26_Witness ==
    /\ pc = "done"
    /\ startIndex = 1
    /\ now = 7
    /\ outcome[2] \in {"completed", "tooMany", "failed"}
    /\ state.processed_authors[authors[2]].last_processed = 7
    /\ Due(1)

\* C27 as stated: when processAuthors has returned, the state file holds
\* current_author_index 0, and every state written to the file during a
\* pass holds an index that is a position of the author list.
C27_PersistedIndexIsPosition ==
    [][/\ pc' = "done" =>
             /\ stateFile'.kind = "valid"
             /\ stateFile'.data.current_author_index = 0
       /\ (stateFile' # stateFile /\ stateFile'.kind = "valid") =>
             /\ 0 <= stateFile'.data.current_author_index
             /\ stateFile'.data.current_author_index < Len(authors)
      ]_vars

\* C27: when processAuthors has returned, the state file holds
\* current_author_index 0, and every state written to the file during a
\* pass holds an index that is a position of the author list, or 0 when the
\* list is empty.
C27_PersistedIndexIsPositionOrZero ==
    [][/\ pc' = "done" =>
             /\ stateFile'.kind = "valid"
             /\ stateFile'.data.current_author_index = 0
       /\ (stateFile' # stateFile /\ stateFile'.kind = "valid") =>
             /\ 0 <= stateFile'.data.current_author_index
             /\ \/ stateFile'.data.current_author_index < Len(authors)
                \/ /\ Len(authors) = 0
                   /\ stateFile'.data.current_author_index = 0
      ]_vars

\* The state was written after the second author of a pass, with the index
\* of that author.
C27_Witness ==
    /\ pc = "saveOut"
    /\ Len(authors) = 2
    /\ i = 1
    /\ stateFile.kind = "valid"
    /\ stateFile.data.current_author_index = 1
    /\ authors[2] \in DOMAIN stateFile.data.processed_authors
    /\ stateFile.data.processed_authors[authors[2]].last_processed = now

\* The five setters that reset the page, by the name the hook returns them
\* under.
ResettingSetters == {"setSearchQuery", "setViewMode", "setSortBy",
                     "setPageSize", "setSearchOptions"}
\* The parameters of a URL other than the page.
OtherParams(params) ==
    [name \in DOMAIN params \ {"page"} |-> params[name]]
\* The page a URL carries; no page parameter stands for page 1.
PageOf(params) == IF Has(params, "page") THEN parseInt(params["page"]) ELSE 1

\* C24: each of setSearchQuery, setViewMode, setSortBy, setPageSize and
\* setSearchOptions sets currentPage to 1 and replaces the current history
\* entry (no entry added, the other entries untouched) with a URL whose page
\* is 1; setCurrentPage changes only the page of the hook and pushes, after
\* the current entry, a new entry with the new page whose other parameters
\* are those of the URL of the state before.
C24_SettersResetPageAndReplace ==
    [][/\ (app'.ops = app.ops + 1 /\ app'.last \in ResettingSetters) =>
            /\ hook'.currentPage = 1
            /\ browser'.op = "replaceState"
            /\ browser'.pos = browser.pos
            /\ Len(browser'.history) = Len(browser.history)
            /\ \A n \in 1..Len(browser.history) \ {browser.pos} :
                  browser'.history[n] = browser.history[n]
            /\ PageOf(browser'.history[browser'.pos]) = 1
       /\ (app'.ops = app.ops + 1 /\ app'.last = "setCurrentPage") =>
            /\ hook' = [hook EXCEPT !.currentPage = hook'.currentPage]
            /\ hook'.currentPage # hook.currentPage
            /\ browser'.op = "pushState"
            /\ browser'.pos = browser.pos + 1
            /\ Len(browser'.history) = browser.pos + 1
            /\ SubSeq(browser'.history, 1, browser.pos)
                  = SubSeq(browser.history, 1, browser.pos)
            /\ PageOf(browser'.history[browser'.pos]) = hook'.currentPage
            /\ OtherParams(browser'.history[browser'.pos])
                  = OtherParams(stateToUrlParams(currentState(hook),
                                                 app.defaults))]_vars
\* A page was pushed, and then a sort replaced the pushed entry.
C24_Witness ==
    /\ app.last = "setSortBy"
    /\ browser.op = "replaceState"
    /\ Len(browser.history) = 2
    /\ browser.pos = 2
    /\ hook.currentPage = 1
    /\ hook.sortBy = "created_asc"

\* C28: on the browsing page, after any sequence of operations (state
\* loaded from the URL, query, filters, sort, view, page size, page
\* navigation, back and forward), 1 <= currentPage <= totalPages.
C28_PageWithinRange ==
    app.phase = "mounted" =>
        1 <= hook.currentPage /\ hook.currentPage <= TotalPagesNow

\* C30: URL state round-trips: for every UI state s with valid field
\* values, the URL written for s, parsed and filled in with the defaults as
\* the popstate handler does, gives s again.
C30_UrlStateRoundTrips ==
    [][(app.last = "updateUrl" /\ app'.last = "popstate") => hook' = hook]_vars

====
